---- MODULE Spec2Model ----
(***************************************************************************)
(* A model of the tool-augmented dialogue core of the voice agent:         *)
(*   - llm_router.py   LLMRouter.chat_with_tools (the protocol loop)       *)
(*   - harada_tools.py the JSON store, the tool handlers, execute_tool     *)
(* Python values are tagged records, strings are TLA+ strings, documents   *)
(* are files that are missing, corrupt or hold a parsed document.          *)
(***************************************************************************)
EXTENDS Integers, Sequences, FiniteSets, TLC

\* ------------------------------------------------------------------------
\* Bounds of the model and program constants
\* ------------------------------------------------------------------------

\* Largest value of LLMRouter.MAX_TOOL_ROUNDS explored (the tests set it to 3).
MaxBudget == 3

\* Largest number of write() calls json.dump needs for one document.
MaxChunks == 2

\* The number of tool calls in a session, and of midnights it spans.
MaxCalls == 3
MaxDays == 1

\* The number of goal-tool calls in a planning session.
MaxGoalCalls == 3

\* The number of calls in a journalling session.
MaxJournalCalls == 3

\* The number of habit-tool calls in a session.
MaxHabitCalls == 3

\* The length of the candidate lists handed to _fuzzy_match.
MaxCandidates == 3

\* The number of calls in a session that watches the streak, and the number
\* of days the longest stored habit log covers.
MaxStreakCalls == 3
LoggedDays == 400

\* The number of calls in a session that watches the chart.
MaxChartCalls == 3

\* The largest MAX_TOOL_ROUNDS of an exchange watched from its caller.
MaxRounds == 2

\* The number of exchanges written to the overlay in one session.
MaxExchanges == 25

\* The number of operations run on a Conversation after its stored history.
MaxConvOps == 5

\* check_habit / uncheck_habit / remove_habit accept a match from score 30 on.
MIN_SCORE == 30

\* ------------------------------------------------------------------------
\* Python values
\* ------------------------------------------------------------------------

PyNone == [t |-> "none"]
PyStr(s) == [t |-> "str", s |-> s]
PyInt(n) == [t |-> "int", n |-> n]
PyBool(b) == [t |-> "bool", b |-> b]
PyList(l) == [t |-> "list", l |-> l]
PyDict(d) == [t |-> "dict", d |-> d]

EmptyMap == [k \in {} |-> PyNone]

IsStr(v) == v.t = "str"
IsInt(v) == v.t = "int"
IsNone(v) == v.t = "none"
IsList(v) == v.t = "list"
IsDict(v) == v.t = "dict"

\* type(v).__name__
TypeName(v) == IF v.t = "none" THEN "NoneType" ELSE v.t

\* bool(v): None, "", 0, False, [] and {} are falsy.
Truthy(v) ==
    CASE v.t = "none" -> FALSE
      [] v.t = "str" -> v.s # ""
      [] v.t = "int" -> v.n # 0
      [] v.t = "bool" -> v.b
      [] v.t = "list" -> Len(v.l) > 0
      [] v.t = "dict" -> DOMAIN v.d # {}

\* ------------------------------------------------------------------------
\* Strings (str.lower, str.strip, str.split, the `in` operator)
\* ------------------------------------------------------------------------

UpperChars == "ABCDEFGHIJKLMNOPQRSTUVWXYZ"
LowerChars == "abcdefghijklmnopqrstuvwxyz"

CharAt(s, i) == SubSeq(s, i, i)

LowerChar(c) ==
    IF \E i \in 1..26 : CharAt(UpperChars, i) = c
    THEN CharAt(LowerChars, CHOOSE i \in 1..26 : CharAt(UpperChars, i) = c)
    ELSE c

RECURSIVE StrLower(_)
StrLower(s) ==
    IF Len(s) = 0 THEN ""
    ELSE LowerChar(CharAt(s, 1)) \o StrLower(SubSeq(s, 2, Len(s)))

IsSpace(c) == c \in {" ", "\t", "\n", "\r"}

RECURSIVE LStrip(_)
LStrip(s) ==
    IF Len(s) > 0 /\ IsSpace(CharAt(s, 1)) THEN LStrip(SubSeq(s, 2, Len(s))) ELSE s

RECURSIVE RStrip(_)
RStrip(s) ==
    IF Len(s) > 0 /\ IsSpace(CharAt(s, Len(s)))
    THEN RStrip(SubSeq(s, 1, Len(s) - 1)) ELSE s

StrStrip(s) == RStrip(LStrip(s))

\* needle in hay
StrContains(needle, hay) ==
    \E i \in 0..(Len(hay) - Len(needle)) : SubSeq(hay, i + 1, i + Len(needle)) = needle

\* Length of the leading run of non-space characters of s.
RECURSIVE WordLen(_)
WordLen(s) ==
    IF Len(s) = 0 \/ IsSpace(CharAt(s, 1)) THEN 0
    ELSE 1 + WordLen(SubSeq(s, 2, Len(s)))

\* s.split(): the maximal runs of non-space characters, in order.
RECURSIVE StrSplit(_)
StrSplit(s) ==
    LET t == LStrip(s) IN
    IF Len(t) = 0 THEN << >>
    ELSE <<SubSeq(t, 1, WordLen(t))>> \o StrSplit(SubSeq(t, WordLen(t) + 1, Len(t)))

RECURSIVE StrJoin(_, _)
StrJoin(sep, l) ==
    IF Len(l) = 0 THEN ""
    ELSE IF Len(l) = 1 THEN l[1]
    ELSE l[1] \o sep \o StrJoin(sep, Tail(l))

\* ------------------------------------------------------------------------
\* The JSON store (.pi/harada/*.json)
\* ------------------------------------------------------------------------

\* A store maps the names of the files that exist to their contents: a file
\* is corrupt (json.load fails on it) or holds a document.
CorruptFile == [corrupt |-> TRUE, v |-> PyNone]
DocFile(data) == [corrupt |-> FALSE, v |-> data]

EmptyStore == [f \in {} |-> CorruptFile]

HABITS_FILE == "habits.json"
HABIT_LOG_FILE == "habit-log.json"
GOAL_FORM_FILE == "goal-form.json"
OW64_FILE == "ow64.json"

\* _read_json: None when the file is missing or does not parse.
ReadJson(store, filename) ==
    IF filename \notin DOMAIN store THEN PyNone
    ELSE IF store[filename].corrupt THEN PyNone
    ELSE store[filename].v

\* _write_json as one atomic step (the file-level steps are modelled by the
\* Writer actions below).
WriteJson(store, filename, data) ==
    [f \in DOMAIN store \cup {filename} |->
        IF f = filename THEN DocFile(data) ELSE store[f]]

\* `x or default`
OrDefault(x, default) == IF Truthy(x) THEN x ELSE default

\* _today() / _days_ago(n): a date is the decimal text of its day number.
DateStr(day) == ToString(day)
Today(env) == DateStr(env.day)
DaysAgo(env, n) == DateStr(env.day - n)

\* dict.get(key, default) on a TLA+ function.
MapGet(m, key, default) == IF key \in DOMAIN m THEN m[key] ELSE default

\* A dict assignment that starts from a fresh dict: the other keys are lost.
MapSetFresh(m, key, value) == [k \in {key} |-> value]

\* m[key] = value on a dict.
MapSet(m, key, value) ==
    [k \in DOMAIN m \cup {key} |-> IF k = key THEN value ELSE m[k]]

\* What a handler hands back: a returned value or a raised exception, and the
\* store it leaves.
Returns(value, store) == [raised |-> FALSE, ret |-> value, exc |-> "", store |-> store]
Raises(message, store) == [raised |-> TRUE, ret |-> PyNone, exc |-> message, store |-> store]

\* str(v) as an f-string renders it.
RECURSIVE PyFormat(_)
PyFormat(v) ==
    CASE v.t = "none" -> "None"
      [] v.t = "str" -> v.s
      [] v.t = "int" -> ToString(v.n)
      [] v.t = "bool" -> IF v.b THEN "True" ELSE "False"
      [] v.t = "list" ->
            "[" \o StrJoin(", ", [i \in 1..Len(v.l) |->
                    IF v.l[i].t = "str" THEN "'" \o v.l[i].s \o "'"
                    ELSE PyFormat(v.l[i])]) \o "]"
      [] v.t = "dict" -> IF DOMAIN v.d = {} THEN "{}" ELSE "{...}"

\* Every habit, active or not.
ActiveHabitsAll(habits) == habits

\* [h for h in habits if h.get("active", True)]
ActiveHabits(habits) == SelectSeq(habits, LAMBDA h : h.active)

\* ------------------------------------------------------------------------
\* _fuzzy_match
\* ------------------------------------------------------------------------

\* Scores are the exact rationals n/d of the float expressions.
Score(n, d) == [n |-> n, d |-> d]
ScoreGT(a, b) == a.n * b.d > b.n * a.d
ScoreLT(a, b) == a.n * b.d < b.n * a.d
\* x with no floor.
Max40None(x) == x

\* max(40, x)
Max40(x) == IF ScoreGT(x, Score(40, 1)) THEN x ELSE Score(40, 1)

\* A word rule that every pair of texts meets.
AllWordsMatchAlways(query_lower, name_lower) == TRUE

\* all(any(qw in nw for nw in name_words) for qw in query_words)
AllWordsMatch(query_lower, name_lower) ==
    LET qws == StrSplit(query_lower)
        nws == StrSplit(name_lower)
    IN \A i \in 1..Len(qws) : \E j \in 1..Len(nws) : StrContains(qws[i], nws[j])

FuzzyResult(raised, idx, score, exc) ==
    [raised |-> raised, idx |-> idx, score |-> score, exc |-> exc]

\* The loop over the candidates from position i on; best is the position of
\* the best candidate so far (0: None).
RECURSIVE FuzzyLoop(_, _, _, _, _)
FuzzyLoop(query_lower, candidates, i, best, best_score) ==
    IF i > Len(candidates) THEN FuzzyResult(FALSE, best, best_score, "")
    ELSE IF ~IsStr(candidates[i].name)
    THEN FuzzyResult(TRUE, 0, Score(0, 1),
            "'" \o TypeName(candidates[i].name) \o "' object has no attribute 'lower'")
    ELSE
        LET name_lower == StrLower(candidates[i].name.s) IN
        IF query_lower = name_lower THEN FuzzyResult(FALSE, i, Score(100, 1), "")
        ELSE IF StrContains(query_lower, name_lower)
        THEN LET score == Max40(Score(Len(query_lower) * 90, Len(name_lower))) IN
             IF ScoreGT(score, best_score)
             THEN FuzzyLoop(query_lower, candidates, i + 1, i, score)
             ELSE FuzzyLoop(query_lower, candidates, i + 1, best, best_score)
        ELSE IF AllWordsMatch(query_lower, name_lower)
        THEN IF ScoreGT(Score(60, 1), best_score)
             THEN FuzzyLoop(query_lower, candidates, i + 1, i, Score(60, 1))
             ELSE FuzzyLoop(query_lower, candidates, i + 1, best, best_score)
        ELSE IF StrContains(name_lower, query_lower)
        THEN LET score == Max40(Score(Len(name_lower) * 80, Len(query_lower))) IN
             IF ScoreGT(score, best_score)
             THEN FuzzyLoop(query_lower, candidates, i + 1, i, score)
             ELSE FuzzyLoop(query_lower, candidates, i + 1, best, best_score)
        ELSE FuzzyLoop(query_lower, candidates, i + 1, best, best_score)

\* _fuzzy_match(query, candidates) -> (matched item or None, score)
FuzzyMatch(query, candidates) ==
    IF ~IsStr(query)
    THEN FuzzyResult(TRUE, 0, Score(0, 1),
            "'" \o TypeName(query) \o "' object has no attribute 'lower'")
    ELSE
        LET query_lower == StrStrip(StrLower(query.s)) IN
        IF query_lower = "" THEN FuzzyResult(FALSE, 0, Score(0, 1), "")
        ELSE FuzzyLoop(query_lower, candidates, 1, 0, Score(0, 1))

\* `not match or score < 30`
NoMatch(fm) == fm.idx = 0 \/ ScoreLT(fm.score, Score(MIN_SCORE, 1))

\* ------------------------------------------------------------------------
\* Habit tools
\* ------------------------------------------------------------------------

\* datetime.now().isoformat(): the date, "T", the time of day.
IsoNow(env) == DateStr(env.day) \o "T" \o ToString(env.tick)

\* The habit list and the habit log as the handlers read them.
ReadHabits(store) == OrDefault(ReadJson(store, HABITS_FILE), PyList(<< >>)).l
ReadHabitLog(store) == OrDefault(ReadJson(store, HABIT_LOG_FILE), PyDict(EmptyMap)).d

\* sum(1 for h in active if today_log.get(h["id"], False))
RECURSIVE CountDone(_, _)
CountDone(active, today_log) ==
    IF Len(active) = 0 THEN 0
    ELSE (IF MapGet(today_log, active[1].id, FALSE) THEN 1 ELSE 0)
         + CountDone(Tail(active), today_log)

\* Whether ", ".join(h["name"] for h in active) raises: join takes strings only.
AllNamesStr(active) == \A i \in 1..Len(active) : IsStr(active[i].name)
HabitNames(active) == [i \in 1..Len(active) |-> active[i].name.s]

list_habits(a, store, env) ==
    LET habits == ReadHabits(store)
        habit_log == ReadHabitLog(store)
        today_log == MapGet(habit_log, Today(env), EmptyMap)
        active == ActiveHabits(habits)
        lines == [i \in 1..Len(active) |->
                    "- " \o PyFormat(active[i].name) \o ": "
                    \o (IF MapGet(today_log, active[i].id, FALSE) THEN "done" ELSE "not done")]
        completed == CountDone(active, today_log)
    IN IF Len(active) = 0
       THEN Returns(PyStr("You don't have any habits set up yet. Would you like to create some?"), store)
       ELSE Returns(PyStr("Today's habits (" \o ToString(completed) \o "/"
                          \o ToString(Len(active)) \o " done):\n" \o StrJoin("\n", lines)), store)

check_habit(a, store, env) ==
    LET habits == ReadHabits(store)
        active == ActiveHabits(habits)
        fm == FuzzyMatch(a.habit_name, active)
    IN IF Len(active) = 0 THEN Returns(PyStr("No habits set up yet."), store)
       ELSE IF fm.raised THEN Raises(fm.exc, store)
       ELSE IF NoMatch(fm)
       THEN IF ~AllNamesStr(active)
            THEN Raises("sequence item 0: expected str instance", store)
            ELSE Returns(PyStr("I couldn't find a habit matching '" \o PyFormat(a.habit_name)
                               \o "'. Your habits are: " \o StrJoin(", ", HabitNames(active))), store)
       ELSE
         LET match == active[fm.idx]
             old_log == ReadHabitLog(store)
             today == Today(env)
             today_log == MapSet(MapGet(old_log, today, EmptyMap), match.id, TRUE)
             habit_log == MapSet(old_log, today, today_log)
             written == WriteJson(store, HABIT_LOG_FILE, PyDict(habit_log))
             completed == CountDone(active, today_log)
             total == Len(active)
         IN IF completed = total
            THEN Returns(PyStr("Checked off '" \o PyFormat(match.name) \o "'! That's all "
                               \o ToString(total) \o " habits done for today! Amazing work!"), written)
            ELSE Returns(PyStr("Checked off '" \o PyFormat(match.name) \o "'! That's "
                               \o ToString(completed) \o " out of " \o ToString(total)
                               \o " done today."), written)

uncheck_habit(a, store, env) ==
    LET habits == ReadHabits(store)
        active == ActiveHabits(habits)
        fm == FuzzyMatch(a.habit_name, active)
    IN IF fm.raised THEN Raises(fm.exc, store)
       ELSE IF NoMatch(fm)
       THEN Returns(PyStr("I couldn't find a habit matching '" \o PyFormat(a.habit_name) \o "'."), store)
       ELSE
         LET match == active[fm.idx]
             old_log == ReadHabitLog(store)
             today == Today(env)
             msg == PyStr("Unchecked '" \o PyFormat(match.name) \o "' for today.")
         IN IF today \in DOMAIN old_log /\ match.id \in DOMAIN old_log[today]
            THEN Returns(msg, WriteJson(store, HABIT_LOG_FILE,
                    PyDict(MapSet(old_log, today, MapSet(old_log[today], match.id, FALSE)))))
            ELSE Returns(msg, store)

add_habit(a, store, env) ==
    LET habits == ReadHabits(store)
        habit == [id |-> "habit-custom-" \o env.uuid, name |-> a.name,
                  frequency |-> a.frequency, active |-> TRUE, createdAt |-> IsoNow(env)]
        appended == Append(habits, habit)
    IN Returns(PyStr("Added new habit: '" \o PyFormat(a.name) \o "' (" \o PyFormat(a.frequency)
                     \o "). You now have " \o ToString(Len(ActiveHabits(appended)))
                     \o " active habits."),
               WriteJson(store, HABITS_FILE, PyList(appended)))

remove_habit(a, store, env) ==
    LET habits == ReadHabits(store)
        active == ActiveHabits(habits)
        fm == FuzzyMatch(a.habit_name, active)
    IN IF fm.raised THEN Raises(fm.exc, store)
       ELSE IF NoMatch(fm)
       THEN Returns(PyStr("I couldn't find a habit matching '" \o PyFormat(a.habit_name) \o "'."), store)
       ELSE
         LET match == active[fm.idx]
             updated == [i \in 1..Len(habits) |->
                            IF habits[i].id = match.id
                            THEN [habits[i] EXCEPT !.active = FALSE] ELSE habits[i]]
         IN Returns(PyStr("Removed habit: '" \o PyFormat(match.name) \o "'."),
                    WriteJson(store, HABITS_FILE, PyList(updated)))

\* ------------------------------------------------------------------------
\* Goal form and OW64 chart tools
\* ------------------------------------------------------------------------

\* The integer a comparison such as `goal_number < 1` reads (a bool is an int).
IsNumber(v) == v.t \in {"int", "bool"}
NumberOf(v) == IF v.t = "int" THEN v.n ELSE IF v.b THEN 1 ELSE 0

CompareError(v) ==
    "'<' not supported between instances of '" \o TypeName(v) \o "' and 'int'"

\* A form that is stamped anew on every save.
CreatedAtNow(existing, now) == now

\* existing["createdAt"] if existing else now
CreatedAt(existing, now) == IF Truthy(existing) THEN existing.d.createdAt ELSE now

\* setup_goal that keeps the stored value of a field left at its default.
setup_goalMerging(a, store, env) ==
    LET existing == ReadJson(store, GOAL_FORM_FILE)
        now == PyStr(IsoNow(env))
        kept(key, value) == IF Truthy(existing) /\ ~Truthy(value) THEN existing.d[key] ELSE value
        form == [northStar |-> a.north_star,
                 purpose |-> kept("purpose", a.purpose),
                 deadline |-> kept("deadline", a.deadline),
                 currentState |-> kept("currentState", a.current_state),
                 gapAnalysis |-> kept("gapAnalysis", a.gap_analysis),
                 obstacles |-> kept("obstacles", OrDefault(a.obstacles, PyList(<< >>))),
                 supportNeeded |-> kept("supportNeeded", OrDefault(a.support_needed, PyList(<< >>))),
                 affirmation |-> kept("affirmation", a.affirmation),
                 createdAt |-> CreatedAt(existing, now),
                 updatedAt |-> now]
    IN Returns(PyStr("Goal form saved! North star: '" \o PyFormat(a.north_star) \o "'. "
                     \o (IF Truthy(a.deadline)
                         THEN "Deadline: " \o PyFormat(a.deadline) \o ". " ELSE "")
                     \o (IF Truthy(a.affirmation)
                         THEN "Affirmation: '" \o PyFormat(a.affirmation) \o "'" ELSE "")),
               WriteJson(store, GOAL_FORM_FILE, PyDict(form)))

setup_goal(a, store, env) ==
    LET existing == ReadJson(store, GOAL_FORM_FILE)
        now == PyStr(IsoNow(env))
        form == [northStar |-> a.north_star,
                 purpose |-> a.purpose,
                 deadline |-> a.deadline,
                 currentState |-> a.current_state,
                 gapAnalysis |-> a.gap_analysis,
                 obstacles |-> OrDefault(a.obstacles, PyList(<< >>)),
                 supportNeeded |-> OrDefault(a.support_needed, PyList(<< >>)),
                 affirmation |-> a.affirmation,
                 createdAt |-> CreatedAt(existing, now),
                 updatedAt |-> now]
    IN Returns(PyStr("Goal form saved! North star: '" \o PyFormat(a.north_star) \o "'. "
                     \o (IF Truthy(a.deadline)
                         THEN "Deadline: " \o PyFormat(a.deadline) \o ". " ELSE "")
                     \o (IF Truthy(a.affirmation)
                         THEN "Affirmation: '" \o PyFormat(a.affirmation) \o "'" ELSE "")),
               WriteJson(store, GOAL_FORM_FILE, PyDict(form)))

\* An action slot whose id leaves out the goal.
NewActionUnprefixed(i, j) ==
    [id |-> ToString(j), goalId |-> i, text |-> PyStr(""),
     completed |-> FALSE, isHabit |-> FALSE, completedAt |-> PyNone]

\* The empty 8 x 8 chart setup_supporting_goal creates.
NewAction(i, j) ==
    [id |-> ToString(i) \o "-" \o ToString(j), goalId |-> i, text |-> PyStr(""),
     completed |-> FALSE, isHabit |-> FALSE, completedAt |-> PyNone]
NewGoal(i) == [id |-> i, title |-> PyStr(""), actions |-> [j \in 1..8 |-> NewAction(i, j)]]
NewChart(north_star) ==
    PyDict([northStar |-> north_star, supportingGoals |-> [i \in 1..8 |-> NewGoal(i)]])

\* Whether actions[:8] can be taken and iterated, and the items it yields: a
\* list yields its items, a str its characters.
Sliceable(v) == v.t \in {"list", "str"}
ItemsOf(v) ==
    IF v.t = "list" THEN v.l ELSE [i \in 1..Len(v.s) |-> PyStr(CharAt(v.s, i))]
FirstEight(items) == SubSeq(items, 1, IF Len(items) < 8 THEN Len(items) ELSE 8)

\* A range check that has no lower end.
OutOfRangeAbove(k) == k > 8

\* goal_number < 1 or goal_number > 8
OutOfRange(k) == k < 1 \/ k > 8

\* The position (from 1) of l[i] in a list of n items: a negative index
\* counts from the end.
ListIndex(i, n) == (IF i < 0 THEN i + n ELSE i) + 1

\* A loop that also blanks the slots it was given no text for.
SetTextsClearing(actions, texts) ==
    [j \in 1..Len(actions) |->
        [actions[j] EXCEPT !.text = IF j <= Len(texts) THEN texts[j] ELSE PyStr("")]]

\* for idx, text in enumerate(actions[:8]): goal["actions"][idx]["text"] = text
SetTexts(actions, texts) ==
    [j \in 1..Len(actions) |->
        IF j <= Len(texts) THEN [actions[j] EXCEPT !.text = texts[j]] ELSE actions[j]]

setup_supporting_goal(a, store, env) ==
    LET goal_form == ReadJson(store, GOAL_FORM_FILE)
        stored == ReadJson(store, OW64_FILE)
        ow64 == IF Truthy(stored) THEN stored ELSE NewChart(goal_form.d.northStar)
        g == NumberOf(a.goal_number)
        gi == ListIndex(g - 1, Len(ow64.d.supportingGoals))
        texts == IF Truthy(a.actions) THEN FirstEight(ItemsOf(a.actions)) ELSE << >>
        goal == ow64.d.supportingGoals[gi]
        new_goal == [goal EXCEPT !.title = a.title, !.actions = SetTexts(goal.actions, texts)]
        new_ow64 == PyDict([ow64.d EXCEPT !.supportingGoals[gi] = new_goal])
        action_count == IF Truthy(a.actions) THEN Len(ItemsOf(a.actions)) ELSE 0
    IN IF ~Truthy(goal_form) THEN Returns(PyStr("Set up your north star goal first."), store)
       ELSE IF ~IsNumber(a.goal_number) THEN Raises(CompareError(a.goal_number), store)
       ELSE IF OutOfRange(g) THEN Returns(PyStr("Goal number must be 1-8."), store)
       ELSE IF Truthy(a.actions) /\ ~Sliceable(a.actions)
       THEN Raises("'" \o TypeName(a.actions) \o "' object is not subscriptable", store)
       ELSE Returns(PyStr("Supporting goal " \o ToString(g) \o " set: '" \o PyFormat(a.title) \o "'"
                          \o (IF action_count # 0
                              THEN " with " \o ToString(action_count) \o " actions." ELSE ".")),
                    WriteJson(store, OW64_FILE, new_ow64))

\* sum(1 for a in actions if a.get("completed"))
RECURSIVE CountCompleted(_)
CountCompleted(actions) ==
    IF Len(actions) = 0 THEN 0
    ELSE (IF actions[1].completed THEN 1 ELSE 0) + CountCompleted(Tail(actions))

\* len([a for a in actions if a.get("text")])
RECURSIVE CountWithText(_)
CountWithText(actions) ==
    IF Len(actions) = 0 THEN 0
    ELSE (IF Truthy(actions[1].text) THEN 1 ELSE 0) + CountWithText(Tail(actions))

\* An action that counts as having text whatever it holds.
HasTextAlways(action) == TRUE

\* action.get("text")
HasText(action) == Truthy(action.text)

\* A completion that flips the flag.
MarkToggled(action, now) ==
    [action EXCEPT !.completed = ~action.completed, !.completedAt = now]

\* action["completed"] = True; action["completedAt"] = now
MarkCompleted(action, now) == [action EXCEPT !.completed = TRUE, !.completedAt = now]

complete_action(a, store, env) ==
    LET ow64 == ReadJson(store, OW64_FILE)
        g == NumberOf(a.goal_number)
        n == NumberOf(a.action_number)
        gi == ListIndex(g - 1, Len(ow64.d.supportingGoals))
        goal == ow64.d.supportingGoals[gi]
        ni == ListIndex(n - 1, Len(goal.actions))
        action == goal.actions[ni]
        new_goal == [goal EXCEPT !.actions[ni] = MarkCompleted(action, PyStr(IsoNow(env)))]
        new_ow64 == PyDict([ow64.d EXCEPT !.supportingGoals[gi] = new_goal])
    IN IF ~Truthy(ow64) THEN Returns(PyStr("No OW64 chart set up."), store)
       ELSE IF ~IsNumber(a.goal_number) THEN Raises(CompareError(a.goal_number), store)
       ELSE IF OutOfRange(g) THEN Returns(PyStr("Goal number must be 1-8."), store)
       ELSE IF ~IsNumber(a.action_number) THEN Raises(CompareError(a.action_number), store)
       ELSE IF OutOfRange(n) THEN Returns(PyStr("Action number must be 1-8."), store)
       ELSE IF ~HasText(action)
       THEN Returns(PyStr("Action " \o ToString(g) \o "-" \o ToString(n)
                          \o " has no text defined."), store)
       ELSE Returns(PyStr("Completed action " \o ToString(g) \o "-" \o ToString(n) \o ": '"
                          \o PyFormat(action.text) \o "'! That's "
                          \o ToString(CountCompleted(new_goal.actions)) \o "/8 for goal '"
                          \o PyFormat(goal.title) \o "'."),
                    WriteJson(store, OW64_FILE, new_ow64))

get_goals(a, store, env) ==
    LET goal_form == ReadJson(store, GOAL_FORM_FILE)
        ow64 == ReadJson(store, OW64_FILE)
        goals == IF Truthy(ow64) THEN SelectSeq(ow64.d.supportingGoals, LAMBDA g : Truthy(g.title))
                 ELSE << >>
        lines == [i \in 1..Len(goals) |->
                    "  " \o ToString(goals[i].id) \o ". " \o PyFormat(goals[i].title) \o " ("
                    \o ToString(CountCompleted(goals[i].actions)) \o "/"
                    \o ToString(CountWithText(goals[i].actions)) \o " actions done)"]
    IN IF ~Truthy(goal_form)
       THEN Returns(PyStr("No goal form set up yet. Let's define your north star!"), store)
       ELSE Returns(PyStr(StrJoin("\n",
                <<"North star: " \o PyFormat(goal_form.d.northStar),
                  "Purpose: " \o PyFormat(goal_form.d.purpose),
                  "Deadline: " \o PyFormat(goal_form.d.deadline),
                  "Affirmation: " \o PyFormat(goal_form.d.affirmation)>>
                \o (IF Truthy(ow64) /\ Len(ow64.d.supportingGoals) > 0
                    THEN <<"\nSupporting goals:">> \o lines ELSE << >>))), store)

\* The affirmation read with no guard for a missing goal form.
get_affirmationUnguarded(a, store, env) ==
    LET goal_form == ReadJson(store, GOAL_FORM_FILE) IN
    IF ~IsDict(goal_form)
    THEN Raises("'" \o TypeName(goal_form) \o "' object is not subscriptable", store)
    ELSE Returns(goal_form.d.affirmation, store)

\* Returns the stored affirmation itself, whatever its type.
get_affirmation(a, store, env) ==
    LET goal_form == ReadJson(store, GOAL_FORM_FILE) IN
    IF ~Truthy(goal_form)
    THEN Returns(PyStr("No affirmation set. Would you like to create one?"), store)
    ELSE IF ~IsDict(goal_form)
    THEN Raises("'" \o TypeName(goal_form) \o "' object has no attribute 'get'", store)
    ELSE IF ~Truthy(MapGet(goal_form.d, "affirmation", PyNone))
    THEN Returns(PyStr("No affirmation set. Would you like to create one?"), store)
    ELSE Returns(goal_form.d.affirmation, store)

\* ------------------------------------------------------------------------
\* Journal tools
\* ------------------------------------------------------------------------

JournalFile(date) == "journal/" \o date \o ".json"

\* len(v) is defined; hash(v) is defined.
HasLen(v) == v.t \in {"str", "list", "dict"}
LenOf(v) == IF v.t = "str" THEN Len(v.s) ELSE IF v.t = "list" THEN Len(v.l)
            ELSE Cardinality(DOMAIN v.d)
Hashable(v) == v.t \notin {"list", "dict"}

\* mood_emoji.get(mood, 'okay') / energy_emoji.get(energy, 'moderate')
MoodWord(v) ==
    IF IsNumber(v) /\ NumberOf(v) \in 1..5
    THEN <<"rough", "meh", "okay", "good", "great">>[NumberOf(v)] ELSE "okay"
EnergyWord(v) ==
    IF IsNumber(v) /\ NumberOf(v) \in 1..5
    THEN <<"drained", "low", "moderate", "high", "energized">>[NumberOf(v)] ELSE "moderate"

\* A merge that forgets the stored entry.
MergedGiven(given, existing, key, default) == IF ~IsNone(given) THEN given ELSE default

\* `given if given is not None else existing.get(key, default)`
Merged(given, existing, key, default) ==
    IF ~IsNone(given) THEN given
    ELSE IF Truthy(existing) /\ key \in DOMAIN existing.d THEN existing.d[key]
    ELSE default

write_journal(a, store, env) ==
    LET today == Today(env)
        now == PyStr(IsoNow(env))
        existing == ReadJson(store, JournalFile(today))
        entry == [date |-> PyStr(today),
                  wentWell |-> Merged(a.went_well, existing, "wentWell", PyList(<< >>)),
                  didntGoWell |-> Merged(a.didnt_go_well, existing, "didntGoWell", PyList(<< >>)),
                  learnings |-> Merged(a.learnings, existing, "learnings", PyList(<< >>)),
                  tomorrowFocus |-> Merged(a.tomorrow_focus, existing, "tomorrowFocus", PyList(<< >>)),
                  mood |-> Merged(a.mood, existing, "mood", PyInt(3)),
                  energy |-> Merged(a.energy, existing, "energy", PyInt(3)),
                  notes |-> Merged(a.notes, existing, "notes", PyStr("")),
                  createdAt |-> Merged(PyNone, existing, "createdAt", now),
                  updatedAt |-> now]
        written == WriteJson(store, JournalFile(today), PyDict(entry))
    IN \* The summary is formatted after the entry is written.
       IF ~Hashable(entry.mood) \/ ~Hashable(entry.energy)
       THEN Raises("unhashable type", written)
       ELSE IF ~HasLen(entry.wentWell) \/ ~HasLen(entry.didntGoWell) \/ ~HasLen(entry.learnings)
       THEN Raises("object has no len()", written)
       ELSE Returns(PyStr("Journal saved for " \o today \o ". "
                \o "Mood: " \o MoodWord(entry.mood) \o " (" \o PyFormat(entry.mood) \o "/5). "
                \o "Energy: " \o EnergyWord(entry.energy) \o " (" \o PyFormat(entry.energy) \o "/5). "
                \o ToString(LenOf(entry.wentWell)) \o " wins, "
                \o ToString(LenOf(entry.didntGoWell)) \o " challenges, "
                \o ToString(LenOf(entry.learnings)) \o " learnings noted."), written)

\* "; ".join(v) is defined: v is a str, a dict, or a list of str.
Joinable(v) ==
    \/ v.t \in {"str", "dict"}
    \/ v.t = "list" /\ \A i \in 1..Len(v.l) : IsStr(v.l[i])
JoinOf(v) ==
    IF v.t = "list" THEN StrJoin("; ", [i \in 1..Len(v.l) |-> v.l[i].s])
    ELSE IF v.t = "str" THEN StrJoin("; ", [i \in 1..Len(v.s) |-> CharAt(v.s, i)])
    ELSE "{...}"

read_journal(a, store, env) ==
    LET date == PyFormat(OrDefault(a.date, PyStr(Today(env))))
        entry == ReadJson(store, JournalFile(date))
        Part(key, label) ==
            IF Truthy(entry.d[key]) THEN <<label \o JoinOf(entry.d[key])>> ELSE << >>
        lists == <<"wentWell", "didntGoWell", "learnings", "tomorrowFocus">>
    IN IF ~Truthy(entry) THEN Returns(PyStr("No journal entry for " \o date \o "."), store)
       ELSE IF \E i \in 1..4 : Truthy(entry.d[lists[i]]) /\ ~Joinable(entry.d[lists[i]])
       THEN Raises("can only join an iterable of str", store)
       ELSE Returns(PyStr(StrJoin("\n",
                <<"Journal for " \o date \o ":">>
                \o Part("wentWell", "What went well: ")
                \o Part("didntGoWell", "Challenges: ")
                \o Part("learnings", "Learnings: ")
                \o Part("tomorrowFocus", "Tomorrow's focus: ")
                \o <<"Mood: " \o PyFormat(entry.d.mood) \o "/5, Energy: "
                     \o PyFormat(entry.d.energy) \o "/5">>
                \o (IF Truthy(entry.d.notes)
                    THEN <<"Notes: " \o PyFormat(entry.d.notes)>> ELSE << >>))), store)

\* ------------------------------------------------------------------------
\* Progress summary
\* ------------------------------------------------------------------------

\* The streak walks back at most this many days.
STREAK_DAYS == 365

DigitChars == "0123456789"
IsDigit(c) == \E i \in 1..10 : CharAt(DigitChars, i) = c
DigitVal(c) == (CHOOSE i \in 1..10 : CharAt(DigitChars, i) = c) - 1
IsDigits(s) == Len(s) > 0 /\ \A i \in 1..Len(s) : IsDigit(CharAt(s, i))

RECURSIVE StrToNat(_)
StrToNat(s) ==
    IF Len(s) = 0 THEN 0
    ELSE StrToNat(SubSeq(s, 1, Len(s) - 1)) * 10 + DigitVal(CharAt(s, Len(s)))

\* A day number as DateStr writes it: digits, with a sign when negative.
IsDayText(s) == IsDigits(s) \/ (Len(s) > 1 /\ CharAt(s, 1) = "-" /\ IsDigits(SubSeq(s, 2, Len(s))))
DayOfText(s) == IF CharAt(s, 1) = "-" THEN 0 - StrToNat(SubSeq(s, 2, Len(s))) ELSE StrToNat(s)

\* Position of the "T" that ends the date part (0: none).
TPos(s) == IF \E i \in 1..Len(s) : CharAt(s, i) = "T"
           THEN CHOOSE i \in 1..Len(s) : CharAt(s, i) = "T" /\ \A j \in 1..(i - 1) : CharAt(s, j) # "T"
           ELSE 0

\* s[:10] of an ISO timestamp: its date part.
DatePart(s) == IF TPos(s) = 0 THEN s ELSE SubSeq(s, 1, TPos(s) - 1)
TimePart(s) == IF TPos(s) = 0 THEN "" ELSE SubSeq(s, TPos(s) + 1, Len(s))

\* datetime.fromisoformat(s): ValueError unless s is a date or a timestamp.
IsIso(s) == IsDayText(DatePart(s)) /\ (TPos(s) = 0 \/ IsDigits(TimePart(s)))
IsoDay(s) == DayOfText(DatePart(s))
IsoTick(s) == IF TPos(s) = 0 THEN 0 ELSE StrToNat(TimePart(s))

\* A day on which some habit is done.
AnyDone(active, day_log) == \E i \in 1..Len(active) : MapGet(day_log, active[i].id, FALSE)

\* all(day_log.get(h["id"], False) for h in active_habits)
AllDone(active, day_log) == \A i \in 1..Len(active) : MapGet(day_log, active[i].id, FALSE)

\* The streak loop from day offset i on: it counts up to the day offset at
\* which it breaks, or to the end of the range.
StreakFrom(active, habit_log, env, i) ==
    LET Counts(j) == AllDone(active, MapGet(habit_log, DaysAgo(env, j), EmptyMap))
        stop == CHOOSE k \in i..STREAK_DAYS :
                    /\ \A j \in i..(k - 1) : Counts(j)
                    /\ k = STREAK_DAYS \/ ~Counts(k)
    IN stop - i

\* A streak over the habits that have been logged at least once.
StreakOfLogged(active, habit_log, env) ==
    LET logged == SelectSeq(active, LAMBDA h :
                    \E d \in DOMAIN habit_log : h.id \in DOMAIN habit_log[d])
    IN IF Len(logged) = 0 THEN 0 ELSE StreakFrom(logged, habit_log, env, 0)

Streak(active, habit_log, env) ==
    IF Len(active) = 0 THEN 0 ELSE StreakFrom(active, habit_log, env, 0)

\* round(done / total * 100): half-to-even on the float quotient. The float
\* is exact enough for the rational result except at the three quotients
\* named, where it falls on the other side of one half.
RoundPct(done, total) ==
    LET q == (100 * done) \div total
        r == (100 * done) % total
    IN IF done = 23 /\ total = 40 THEN 57
       ELSE IF done = 49 /\ total = 40 THEN 123
       ELSE IF done = 51 /\ total = 40 THEN 127
       ELSE IF 2 * r < total THEN q
       ELSE IF 2 * r > total THEN q + 1
       ELSE IF q % 2 = 0 THEN q ELSE q + 1

\* The goals get_progress summarises: those with a title.
TitledGoals(ow64) ==
    IF Truthy(ow64) /\ Len(ow64.d.supportingGoals) > 0
    THEN SelectSeq(ow64.d.supportingGoals, LAMBDA g : Truthy(g.title))
    ELSE << >>

RECURSIVE SumSeq(_)
SumSeq(l) == IF Len(l) = 0 THEN 0 ELSE l[1] + SumSeq(Tail(l))

ProgressDone(ow64) ==
    LET gs == TitledGoals(ow64) IN SumSeq([i \in 1..Len(gs) |-> CountCompleted(gs[i].actions)])
ProgressTotal(ow64) ==
    LET gs == TitledGoals(ow64) IN SumSeq([i \in 1..Len(gs) |-> CountWithText(gs[i].actions)])

\* Files of the journal directory with suffix .json.
IsJournalFile(f) ==
    /\ Len(f) > 13
    /\ SubSeq(f, 1, 8) = "journal/"
    /\ SubSeq(f, Len(f) - 4, Len(f)) = ".json"
JournalCount(store) == Cardinality({f \in DOMAIN store : IsJournalFile(f)})

get_progress(a, store, env) ==
    LET goal_form == ReadJson(store, GOAL_FORM_FILE)
        ow64 == ReadJson(store, OW64_FILE)
        habits == ReadHabits(store)
        habit_log == ReadHabitLog(store)
        today_log == MapGet(habit_log, Today(env), EmptyMap)
        active_habits == ActiveHabits(habits)
        habits_done == CountDone(active_habits, today_log)
        streak == Streak(active_habits, habit_log, env)
        gs == TitledGoals(ow64)
        ow64_done == ProgressDone(ow64)
        ow64_total == ProgressTotal(ow64)
        goal_summaries == [i \in 1..Len(gs) |->
            LET done == CountCompleted(gs[i].actions)
                total == CountWithText(gs[i].actions)
            IN "  Goal " \o ToString(gs[i].id) \o " '" \o PyFormat(gs[i].title) \o "': "
               \o ToString(done) \o "/" \o ToString(total) \o " ("
               \o ToString(IF total > 0 THEN RoundPct(done, total) ELSE 0) \o "%)"]
        deadline == goal_form.d.deadline
        days_left == IsoDay(deadline.s) - env.day
                     - (IF IsoTick(deadline.s) < env.tick THEN 1 ELSE 0)
        created == goal_form.d.createdAt
        days_info ==
            (IF Truthy(deadline) /\ IsIso(deadline.s) /\ days_left > 0
             THEN ToString(days_left) \o " days remaining to deadline. " ELSE "")
            \o (IF Truthy(created) /\ IsIso(DatePart(created.s))
                THEN "Day " \o ToString(env.day - IsoDay(DatePart(created.s))) \o " of your journey."
                ELSE "")
        journal_count == JournalCount(store)
    IN IF ~Truthy(goal_form)
       THEN Returns(PyStr("No Harada goal set up yet. Let's start by defining your north star goal!"), store)
       ELSE IF Truthy(deadline) /\ ~IsStr(deadline)
       THEN Raises("fromisoformat: argument must be str", store)
       ELSE Returns(PyStr(StrJoin("\n",
                <<"North star: " \o PyFormat(goal_form.d.northStar) \o ".",
                  days_info,
                  "Today's habits: " \o ToString(habits_done) \o "/"
                  \o ToString(Len(active_habits)) \o " done.">>
                \o (IF streak > 0
                    THEN <<"Current streak: " \o ToString(streak) \o " days.">> ELSE << >>)
                \o (IF ow64_total > 0
                    THEN <<"OW64 progress: " \o ToString(ow64_done) \o "/" \o ToString(ow64_total)
                           \o " actions completed (" \o ToString(RoundPct(ow64_done, ow64_total))
                           \o "%).">> ELSE << >>)
                \o (IF Len(goal_summaries) > 0
                    THEN <<"By goal:\n" \o StrJoin("\n", goal_summaries)>> ELSE << >>)
                \o (IF journal_count > 0
                    THEN <<"Journal entries: " \o ToString(journal_count) \o " total.">> ELSE << >>)
                \o (IF Truthy(goal_form.d.affirmation)
                    THEN <<"Your affirmation: " \o PyFormat(goal_form.d.affirmation)>>
                    ELSE << >>))), store)

\* ------------------------------------------------------------------------
\* Overlay snapshot (get_overlay_state)
\* ------------------------------------------------------------------------

\* The averages look back this many days.
AVERAGE_DAYS == 30

\* A float, kept as the exact rational n/d.
PyFloat(n, d) == [t |-> "float", n |-> n, d |-> d]

\* `if ow64 and ow64.get("supportingGoals")`: the goals the loop walks.
OverlayGoals(ow64) ==
    IF Truthy(ow64) /\ Len(ow64.d.supportingGoals) > 0 THEN ow64.d.supportingGoals ELSE << >>

\* ow64_done += done / ow64_total += len(filled), over every goal.
OverlayDone(ow64) ==
    SumSeq([i \in 1..Len(OverlayGoals(ow64)) |-> CountCompleted(OverlayGoals(ow64)[i].actions)])
OverlayTotal(ow64) ==
    SumSeq([i \in 1..Len(OverlayGoals(ow64)) |-> CountWithText(OverlayGoals(ow64)[i].actions)])

\* round(done / len(filled) * 100) if filled else 0
PctOf(done, total) == IF total > 0 THEN RoundPct(done, total) ELSE 0

\* goal_progress.append({"id", "title", "pct"}) for the goals with a title
GoalProgressEntry(g) ==
    PyDict([id |-> PyInt(g.id), title |-> g.title,
            pct |-> PyInt(PctOf(CountCompleted(g.actions), CountWithText(g.actions)))])
GoalProgress(ow64) ==
    LET titled == SelectSeq(OverlayGoals(ow64), LAMBDA g : Truthy(g.title))
    IN [i \in 1..Len(titled) |-> GoalProgressEntry(titled[i])]

\* The values moods.append / energies.append collect from day offset i on:
\* `if entry: if entry.get(key): append(entry[key])`.
RECURSIVE Collected(_, _, _, _)
Collected(store, env, key, i) ==
    IF i >= AVERAGE_DAYS THEN << >>
    ELSE LET entry == ReadJson(store, JournalFile(DaysAgo(env, i)))
             here == IF Truthy(entry) /\ Truthy(MapGet(entry.d, key, PyNone))
                     THEN <<entry.d[key]>> ELSE << >>
         IN here \o Collected(store, env, key, i + 1)

\* round(x, 1) of x = total / n, in tenths: half-to-even on the quotient.
\* The float quotient decides as the rational does wherever the rational is
\* no tie or is a tie at a multiple of one quarter, which covers every n
\* that is no multiple of 20.
RoundTenths(total, n) ==
    LET q == (10 * total) \div n
        r == (10 * total) % n
    IN IF 2 * r < n THEN q
       ELSE IF 2 * r > n THEN q + 1
       ELSE IF q % 2 = 0 THEN q ELSE q + 1

\* sum(values) is defined: every value is a number.
Summable(values) == \A i \in 1..Len(values) : IsNumber(values[i])

\* round(sum(values) / len(values), 1) if values else None
Average(values) ==
    IF Len(values) = 0 THEN PyNone
    ELSE PyFloat(RoundTenths(SumSeq([i \in 1..Len(values) |-> NumberOf(values[i])]),
                             Len(values)), 10)

\* days_since_start: 0 unless createdAt[:10] parses.
DaysSinceStart(goal_form, env) ==
    IF Truthy(goal_form) /\ Truthy(MapGet(goal_form.d, "createdAt", PyNone))
       /\ IsIso(DatePart(goal_form.d.createdAt.s))
    THEN env.day - IsoDay(DatePart(goal_form.d.createdAt.s)) ELSE 0

\* days_remaining: -1 unless the deadline parses.
DaysRemaining(goal_form, env) ==
    IF Truthy(goal_form) /\ Truthy(MapGet(goal_form.d, "deadline", PyNone))
       /\ IsIso(goal_form.d.deadline.s)
    THEN IsoDay(goal_form.d.deadline.s) - env.day
         - (IF IsoTick(goal_form.d.deadline.s) < env.tick THEN 1 ELSE 0)
    ELSE 0 - 1

\* "habits": [{"name": h["name"], "done": today_log.get(h["id"], False)} ...]
HabitMarks(active_habits, today_log) ==
    [i \in 1..Len(active_habits) |->
        PyDict([name |-> active_habits[i].name,
                done |-> PyBool(MapGet(today_log, active_habits[i].id, FALSE))])]

\* The "dashboard" dict of the snapshot.
Dashboard(goal_form, ow64, active_habits, habit_log, today_log, moods, energies, env) ==
    [northStar |-> IF Truthy(goal_form) THEN goal_form.d.northStar ELSE PyStr(""),
     affirmation |-> IF Truthy(goal_form)
                     THEN MapGet(goal_form.d, "affirmation", PyStr("")) ELSE PyStr(""),
     daysSinceStart |-> PyInt(DaysSinceStart(goal_form, env)),
     daysRemaining |-> PyInt(DaysRemaining(goal_form, env)),
     habits |-> PyList(HabitMarks(active_habits, today_log)),
     habitsCompleted |-> PyInt(CountDone(active_habits, today_log)),
     habitsTotal |-> PyInt(Len(active_habits)),
     streak |-> PyInt(Streak(active_habits, habit_log, env)),
     ow64Completion |-> PyInt(PctOf(OverlayDone(ow64), OverlayTotal(ow64))),
     ow64Done |-> PyInt(OverlayDone(ow64)),
     ow64Total |-> PyInt(OverlayTotal(ow64)),
     goalProgress |-> PyList(GoalProgress(ow64)),
     avgMood |-> Average(moods),
     avgEnergy |-> Average(energies)]

\* What the snapshot raises on: fromisoformat of a deadline or createdAt that
\* is no str, sum of a mood or energy that is no number.
OverlayRaises(goal_form, moods, energies) ==
    \/ /\ Truthy(goal_form)
       /\ \/ (Truthy(MapGet(goal_form.d, "createdAt", PyNone)) /\ ~IsStr(goal_form.d.createdAt))
          \/ (Truthy(MapGet(goal_form.d, "deadline", PyNone)) /\ ~IsStr(goal_form.d.deadline))
    \/ ~Summable(moods)
    \/ ~Summable(energies)

\* get_overlay_state(conversation_history)
get_overlay_state(conversation_history, store, env) ==
    IF OverlayRaises(ReadJson(store, GOAL_FORM_FILE),
                     Collected(store, env, "mood", 0), Collected(store, env, "energy", 0))
    THEN Raises("TypeError", store)
    ELSE Returns(PyDict([timestamp |-> PyStr(IsoNow(env)),
                         conversation |-> OrDefault(conversation_history, PyList(<< >>)),
                         dashboard |-> PyDict(Dashboard(
                            ReadJson(store, GOAL_FORM_FILE), ReadJson(store, OW64_FILE),
                            ActiveHabits(ReadHabits(store)), ReadHabitLog(store),
                            MapGet(ReadHabitLog(store), Today(env), EmptyMap),
                            Collected(store, env, "mood", 0), Collected(store, env, "energy", 0),
                            env))]), store)

\* ------------------------------------------------------------------------
\* Dispatcher
\* ------------------------------------------------------------------------

\* The parameters of each handler of _TOOL_FUNCTIONS: those without a default
\* are required; every handler also takes **kwargs.
NoParams == [p \in {} |-> PyNone]
Signature(required, defaults) == [required |-> required, defaults |-> defaults]

TOOL_FUNCTIONS ==
    [list_habits |-> Signature({}, NoParams),
     check_habit |-> Signature({"habit_name"}, NoParams),
     uncheck_habit |-> Signature({"habit_name"}, NoParams),
     add_habit |-> Signature({"name"}, [frequency |-> PyStr("daily")]),
     remove_habit |-> Signature({"habit_name"}, NoParams),
     get_progress |-> Signature({}, NoParams),
     get_goals |-> Signature({}, NoParams),
     get_affirmation |-> Signature({}, NoParams),
     setup_goal |-> Signature({"north_star"},
        [purpose |-> PyStr(""), deadline |-> PyStr(""), current_state |-> PyStr(""),
         gap_analysis |-> PyStr(""), obstacles |-> PyNone, support_needed |-> PyNone,
         affirmation |-> PyStr("")]),
     setup_supporting_goal |-> Signature({"goal_number", "title"}, [actions |-> PyNone]),
     complete_action |-> Signature({"goal_number", "action_number"}, NoParams),
     write_journal |-> Signature({},
        [went_well |-> PyNone, didnt_go_well |-> PyNone, learnings |-> PyNone,
         tomorrow_focus |-> PyNone, mood |-> PyNone, energy |-> PyNone, notes |-> PyNone]),
     read_journal |-> Signature({}, [date |-> PyNone])]

\* The parameters as func(**arguments) binds them: the value passed, else the
\* default; other keys go to **kwargs.
BindArguments(sig, arguments) ==
    [p \in sig.required \cup DOMAIN sig.defaults |->
        IF p \in DOMAIN arguments.d THEN arguments.d[p] ELSE sig.defaults[p]]

Handler(name, a, store, env) ==
    CASE name = "list_habits" -> list_habits(a, store, env)
      [] name = "check_habit" -> check_habit(a, store, env)
      [] name = "uncheck_habit" -> uncheck_habit(a, store, env)
      [] name = "add_habit" -> add_habit(a, store, env)
      [] name = "remove_habit" -> remove_habit(a, store, env)
      [] name = "get_progress" -> get_progress(a, store, env)
      [] name = "get_goals" -> get_goals(a, store, env)
      [] name = "get_affirmation" -> get_affirmation(a, store, env)
      [] name = "setup_goal" -> setup_goal(a, store, env)
      [] name = "setup_supporting_goal" -> setup_supporting_goal(a, store, env)
      [] name = "complete_action" -> complete_action(a, store, env)
      [] name = "write_journal" -> write_journal(a, store, env)
      [] name = "read_journal" -> read_journal(a, store, env)

\* func(**arguments): TypeError when arguments is no mapping or a required
\* parameter is missing.
CallTool(name, arguments, store, env) ==
    LET sig == TOOL_FUNCTIONS[name] IN
    IF ~IsDict(arguments)
    THEN Raises(name \o "() argument after ** must be a mapping, not "
                \o TypeName(arguments), store)
    ELSE IF ~(sig.required \subseteq DOMAIN arguments.d)
    THEN Raises(name \o "() missing "
                \o ToString(Cardinality(sig.required \ DOMAIN arguments.d))
                \o " required positional argument", store)
    ELSE Handler(name, BindArguments(sig, arguments), store, env)

\* What the dispatcher hands back: the value returned and the store left,
\* and whether the tool function raised on the way.
Outcome(ret, store, raised) == [ret |-> ret, store |-> store, raised |-> raised]

\* try: return func(**arguments) / except Exception as e: return f"Tool error ..."
Guarded(name, r) ==
    IF r.raised
    THEN Outcome(PyStr("Tool error (" \o name \o "): " \o r.exc), r.store, TRUE)
    ELSE Outcome(r.ret, r.store, FALSE)

\* execute_tool(name, arguments)
ExecuteTool(name, arguments, store, env) ==
    IF name \notin DOMAIN TOOL_FUNCTIONS
    THEN Outcome(PyStr("Unknown tool: " \o name), store, FALSE)
    ELSE Guarded(name, CallTool(name, arguments, store, env))

\* ------------------------------------------------------------------------
\* JSON text of tool-call arguments (json.dumps / json.loads)
\* ------------------------------------------------------------------------

RECURSIVE SetToSeq(_)
SetToSeq(S) ==
    IF S = {} THEN << >>
    ELSE LET x == CHOOSE x \in S : TRUE IN <<x>> \o SetToSeq(S \ {x})

RECURSIVE JsonDumps(_)
JsonDumps(v) ==
    CASE v.t = "none" -> "null"
      [] v.t = "str" -> "\"" \o v.s \o "\""
      [] v.t = "int" -> ToString(v.n)
      [] v.t = "bool" -> IF v.b THEN "true" ELSE "false"
      [] v.t = "list" -> "[" \o StrJoin(", ", [i \in 1..Len(v.l) |-> JsonDumps(v.l[i])]) \o "]"
      [] v.t = "dict" ->
            LET keys == SetToSeq(DOMAIN v.d) IN
            "{" \o StrJoin(", ", [i \in 1..Len(keys) |->
                    "\"" \o keys[i] \o "\": " \o JsonDumps(v.d[keys[i]])]) \o "}"

\* The JSON documents the argument texts of the model encode.
JsonValues ==
    {PyDict(EmptyMap),
     PyDict([habit_name |-> PyStr("exercise")]),
     PyDict([habit_name |-> PyStr("read")]),
     PyList(<<PyInt(1)>>),
     PyNone}

\* json.loads(text): the document the text encodes, or JSONDecodeError.
JsonLoads(text) ==
    LET hits == {v \in JsonValues : JsonDumps(v) = text} IN
    IF hits # {} THEN [ok |-> TRUE, v |-> CHOOSE v \in hits : TRUE]
    ELSE [ok |-> FALSE, v |-> PyNone]

\* Argument parsing without the empty-dict default: None on text that does
\* not parse.
ParseArgumentsNoDefault(arguments) ==
    IF IsStr(arguments)
    THEN IF JsonLoads(arguments.s).ok THEN JsonLoads(arguments.s).v ELSE PyNone
    ELSE arguments

\* json.loads(arguments) if it is a str (an empty dict when it does not
\* parse), else arguments as they are.
ParseArguments(arguments) ==
    IF IsStr(arguments)
    THEN IF JsonLoads(arguments.s).ok THEN JsonLoads(arguments.s).v ELSE PyDict(EmptyMap)
    ELSE arguments

\* ------------------------------------------------------------------------
\* LLMRouter.chat_with_tools on the tool-capable provider
\* ------------------------------------------------------------------------

VARIABLES
    pc,                 \* where the exchange is: "call", "tools", "returned", "raised"
    max_tool_rounds,    \* self.MAX_TOOL_ROUNDS
    round_num,          \* the loop index
    working_messages,   \* the working message list
    choice,             \* the choice of the last response, as received
    message,            \* the message of the last response
    finish_reason,      \* the finish reason read from the last response
    tool_calls,         \* the tool calls of the last response
    tc_idx,             \* position of the next tool call to execute
    result,             \* the value returned
    exc,                \* the exception raised
    store,              \* the JSON store the tools read and write
    calls,              \* history: number of provider requests made
    sent,               \* history: the message list of the last request
    executed,           \* history: the executor calls made, in order
    failure,            \* history: the provider failure, once one happened
    caller_messages     \* the list the caller passed as messages

routerVars == <<pc, max_tool_rounds, round_num, working_messages, choice, message, finish_reason,
                tool_calls, tc_idx, result, exc, store, calls, sent, executed, failure,
                caller_messages>>

\* The files of one key of the store, and the processes at work on them.
VARIABLES
    fs_dir,        \* the directory: file name -> inode
    fs_inodes,     \* inode -> content, a sequence of chunks
    writers,       \* per writing process: where it is in _write_json
    reader,        \* the reading process: where it is in _read_json
    fs_initial,    \* history: the document stored at first, or "none"
    commits,       \* history: the writers whose rename succeeded, in order
    doc_size       \* document -> number of chunks

fileVars == <<fs_dir, fs_inodes, writers, reader, fs_initial, commits, doc_size>>

\* A session of tool calls through the dispatcher.
VARIABLES
    t_store,   \* the data directory
    t_env,     \* the clock and the next uuid
    t_last     \* history: the last call, its result and the store before it

toolVars == <<t_store, t_env, t_last>>

\* A Conversation object.
VARIABLES
    conv_state,          \* self.state
    conv_messages,       \* self.messages
    current_transcript,  \* self.current_transcript
    conv_appended,       \* history: every message appended, in order
    conv_op              \* history: the last operation and how many ran

convVars == <<conv_state, conv_messages, current_transcript, conv_appended, conv_op>>

\* The values the conversation variables keep in the specifications that do
\* not use them.
ConvParked ==
    /\ conv_state = "parked" /\ conv_messages = << >> /\ current_transcript = ""
    /\ conv_appended = << >> /\ conv_op = [name |-> "", n |-> 0, before |-> << >>]

\* A key the provider left out of a JSON object.
Absent == [t |-> "absent"]
\* dict.get(key, default)
GetOr(v, default) == IF v = Absent THEN default ELSE v

FALLBACK == "I had trouble completing that request. Could you try again?"

ToolCall(id, name, arguments) ==
    [id |-> id, function |-> [name |-> name, arguments |-> arguments]]

\* The tool-call lists the provider may send.
ToolCallLists ==
    {<<ToolCall("c1", "check_habit", PyStr(JsonDumps(PyDict([habit_name |-> PyStr("exercise")])))),
       ToolCall("c2", "check_habit", PyDict([habit_name |-> PyStr("read")]))>>,
     <<ToolCall("c1", "list_habits", PyStr("not json!!!")),
       ToolCall("c2", "check_habit", PyStr(JsonDumps(PyDict([habit_name |-> PyStr("read")]))))>>,
     <<ToolCall("c1", "nonexistent_tool", PyStr("{}"))>>,
     <<ToolCall("c1", "check_habit", PyStr(JsonDumps(PyList(<<PyInt(1)>>)))),
       ToolCall("c2", "uncheck_habit", PyDict([habit_name |-> PyStr("exercise")]))>>}

Contents == {Absent, PyNone, PyStr("Still processing...")}
FinishReasons == {Absent, PyStr("stop"), PyStr("tool_calls")}

\* The responses the provider may give: one choice with a message and a
\* finish reason.
Responses ==
    {[message |-> [role |-> "assistant", content |-> c, tool_calls |-> tcs],
      finish_reason |-> f] :
        c \in Contents,
        tcs \in {Absent, PyList(<< >>)} \cup {PyList(l) : l \in ToolCallLists},
        f \in FinishReasons}

\* httpx.HTTPStatusError (raise_for_status) and httpx.RequestError (timeout).
ProviderFailures == {"HTTPStatusError", "ReadTimeout"}

\* The store of the exchange: two active habits, or nothing yet.
Habit(id, name) ==
    [id |-> id, name |-> PyStr(name), frequency |-> PyStr("daily"), active |-> TRUE,
     createdAt |-> "1T0"]
TwoHabits ==
    [f \in {HABITS_FILE} |-> DocFile(PyList(<<Habit("h1", "Exercise"), Habit("h2", "Read")>>))]
ExchangeStores == {EmptyStore, TwoHabits}

\* The history the caller passes.
History == <<[role |-> "user", content |-> PyStr("I exercised and read today")]>>
SYSTEM_PROMPT == "You are a coach."

\* The day and time of the exchange.
ExchangeEnv == [day |-> 10, tick |-> 1, uuid |-> "00000001"]

NoMessage == [role |-> "none", content |-> Absent, tool_calls |-> Absent]
NoChoice == [message |-> NoMessage, finish_reason |-> Absent]
NoFailure == [happened |-> FALSE, kind |-> "", calls |-> 0, executed |-> 0]

\* working_messages = [{"role": "system", ...}] + list(messages)
InitialMessages(system_prompt, messages) ==
    <<[role |-> "system", content |-> PyStr(system_prompt)]>> \o messages

RouterInit ==
    /\ pc = "call"
    /\ max_tool_rounds \in 1..MaxBudget
    /\ round_num = 0
    /\ working_messages = InitialMessages(SYSTEM_PROMPT, History)
    /\ choice = NoChoice
    /\ message = NoMessage
    /\ finish_reason = Absent
    /\ tool_calls = Absent
    /\ tc_idx = 0
    /\ result = PyNone
    /\ exc = ""
    /\ store \in ExchangeStores
    /\ calls = 0
    /\ sent = << >>
    /\ executed = << >>
    /\ failure = NoFailure
    /\ caller_messages = History

\* A finality test that looks at the tool calls alone.
IsFinalIgnoringFinish(tcs, finish) == ~Truthy(GetOr(tcs, PyNone))

\* `not tool_calls or finish_reason == "stop"`
IsFinal(tcs, finish) == ~Truthy(GetOr(tcs, PyNone)) \/ finish = PyStr("stop")

\* choice["finish_reason"], with no default.
FinishOfAsGiven(ch) == ch.finish_reason

\* choice.get("finish_reason", "stop")
FinishOf(ch) == GetOr(ch.finish_reason, PyStr("stop"))

\* message.get("content", "") of a final response
FinalAnswer(msg) == GetOr(msg.content, PyStr(""))

\* message.get("content", FALLBACK) once the rounds are used up
ExhaustedAnswer(msg) == GetOr(msg.content, PyStr(FALLBACK))

\* A loop bound that is off by one: one round too many.
HasNextRoundOffByOne(r, budget) == r + 1 <= budget

\* range(self.MAX_TOOL_ROUNDS) has a next index after round r.
HasNextRound(r, budget) == r + 1 < budget

\* A tool-result message that drops the originating call id.
ToolResultMessageNoId(tc, tool_result) ==
    [role |-> "tool", tool_call_id |-> "", content |-> tool_result]

\* The tool-result message appended for a tool call.
ToolResultMessage(tc, tool_result) ==
    [role |-> "tool", tool_call_id |-> tc.id, content |-> tool_result]

\* A handler that swallows the failure and tries the request again.
OnProviderFailureRetry(kind) == [pc |-> "call", exc |-> ""]

\* What the except clauses do with a provider failure: log it and re-raise.
OnProviderFailure(kind) == [pc |-> "raised", exc |-> kind]

\* tool_result[:100] and len(tool_result) are defined.
Printable(tool_result) == tool_result.t \in {"str", "list"}

\* One record of the executor-call history.
Execution(round, tc, arguments, tool_result) ==
    [round |-> round, id |-> tc.id, name |-> tc.function.name,
     raw |-> tc.function.arguments, arguments |-> arguments, result |-> tool_result]

\* The caller's list after an append to a working list that is the caller's
\* list itself.
AfterAppendShared(caller, msg) == Append(caller, msg)

\* The caller's list after working_messages.append(msg): the working list
\* is a list of its own, [system] + list(messages), so the caller's list
\* is as it was.
AfterAppend(caller, msg) == caller

\* The provider answers the request of this round.
ProviderResponds ==
    /\ pc = "call"
    /\ \E resp \in Responses :
        LET msg == resp.message
            fin == FinishOf(resp)
        IN /\ calls' = calls + 1
           /\ sent' = working_messages
           /\ choice' = resp
           /\ message' = msg
           /\ finish_reason' = fin
           /\ tool_calls' = msg.tool_calls
           /\ IF IsFinal(msg.tool_calls, fin)
              THEN /\ pc' = "returned"
                   /\ result' = FinalAnswer(msg)
                   /\ UNCHANGED <<working_messages, tc_idx, caller_messages>>
              ELSE /\ pc' = "tools"
                   /\ working_messages' = Append(working_messages, msg)
                   /\ caller_messages' = AfterAppend(caller_messages, msg)
                   /\ tc_idx' = 1
                   /\ UNCHANGED result
    /\ UNCHANGED <<max_tool_rounds, round_num, exc, store, executed, failure>>
    /\ UNCHANGED <<fileVars, toolVars, convVars>>

\* The request of this round fails: an HTTP error status or a network error.
ProviderFails ==
    /\ pc = "call"
    /\ \E kind \in ProviderFailures :
        /\ pc' = OnProviderFailure(kind).pc
        /\ exc' = OnProviderFailure(kind).exc
        /\ failure' = [happened |-> TRUE, kind |-> kind, calls |-> calls + 1,
                       executed |-> Len(executed)]
    /\ calls' = calls + 1
    /\ sent' = working_messages
    /\ UNCHANGED <<max_tool_rounds, round_num, working_messages, choice, message,
                   finish_reason, tool_calls, tc_idx, result, store, executed,
                   caller_messages>>
    /\ UNCHANGED <<fileVars, toolVars, convVars>>

\* One pass of `for tc in tool_calls`; after the last tool call of a round the
\* loop goes to the next round or, out of rounds, returns.
ExecuteToolCall ==
    /\ pc = "tools"
    /\ LET tc == tool_calls.l[tc_idx]
           tool_args == ParseArguments(tc.function.arguments)
           out == ExecuteTool(tc.function.name, tool_args, store, ExchangeEnv)
       IN /\ store' = out.store
          /\ executed' = Append(executed, Execution(round_num, tc, tool_args, out.ret))
          /\ IF ~Printable(out.ret)
             THEN /\ pc' = "raised"
                  /\ exc' = "TypeError"
                  /\ UNCHANGED <<working_messages, tc_idx, round_num, result, caller_messages>>
             ELSE /\ working_messages' = Append(working_messages, ToolResultMessage(tc, out.ret))
                  /\ caller_messages' =
                        AfterAppend(caller_messages, ToolResultMessage(tc, out.ret))
                  /\ exc' = exc
                  /\ IF tc_idx < Len(tool_calls.l)
                     THEN /\ tc_idx' = tc_idx + 1
                          /\ UNCHANGED <<pc, round_num, result>>
                     ELSE IF HasNextRound(round_num, max_tool_rounds)
                     THEN /\ pc' = "call"
                          /\ round_num' = round_num + 1
                          /\ UNCHANGED <<tc_idx, result>>
                     ELSE /\ pc' = "returned"
                          /\ result' = ExhaustedAnswer(message)
                          /\ UNCHANGED <<tc_idx, round_num>>
    /\ UNCHANGED <<max_tool_rounds, choice, message, finish_reason, tool_calls, calls, sent,
                   failure>>
    /\ UNCHANGED <<fileVars, toolVars, convVars>>

RouterNext == ProviderResponds \/ ProviderFails \/ ExecuteToolCall

\* ------------------------------------------------------------------------
\* _read_json and _write_json at the level of files
\* ------------------------------------------------------------------------

\* The key written and read, and the processes that may write it.
KEY_FILE == "habit-log.json"
WriterIds == {"w1", "w2"}

\* A writer that writes the file in place.
TmpNameInPlace(path) == path

\* tmp = str(path) + ".tmp"
TmpName(path) == path \o ".tmp"

\* A document is written in chunks, one per write() call; a hole is what
\* reading returns where a write landed beyond the end of the file.
Chunk(doc, k) == [doc |-> doc, k |-> k]
Hole == Chunk("hole", 0)
Complete(doc, size) == [k \in 1..size |-> Chunk(doc, k)]

\* json.load of the bytes read: the document when they are exactly one
\* complete document, else JSONDecodeError.
IsComplete(content) ==
    /\ Len(content) > 0
    /\ content[1].doc # "hole"
    /\ content[Len(content)].k = Len(content)
    /\ \A i \in 1..Len(content) : content[i] = Chunk(content[1].doc, i)
    /\ content[1].doc \in {"old", "stale"} \cup WriterIds
ParseContent(content, sizes) ==
    IF IsComplete(content) /\ sizes[content[1].doc] = Len(content)
    THEN content[1].doc ELSE "none"

\* What the file holds at first: nothing (no file), a document, text that is
\* no JSON, or bytes that are no UTF-8 text.
InitialContents == {"none", "old", "garbage", "binary"}

\* f.read() of a file opened in text mode decodes the bytes: UnicodeDecodeError
\* when they are no UTF-8 text.
Decodable(content) == \A i \in 1..Len(content) : content[i].doc # "binary"

FreshInode(inodes) == Cardinality(DOMAIN inodes) + 1

\* write() of one chunk at offset off: the file is overwritten from there,
\* and padded with a hole when the offset is beyond its end.
WriteAt(content, off, chunk) ==
    [i \in 1..(IF off + 1 > Len(content) THEN off + 1 ELSE Len(content)) |->
        IF i = off + 1 THEN chunk
        ELSE IF i <= Len(content) THEN content[i]
        ELSE Hole]

WriterIdle == [pc |-> "idle", fd |-> 0, off |-> 0]
ReaderStart == [pc |-> "exists", fd |-> 0, buf |-> << >>, result |-> "none"]

\* Document sizes: the stored document, a stale temporary file, each writer's.
DocNames == {"old", "stale"} \cup WriterIds

FilesInit ==
    /\ doc_size \in [DocNames -> 1..MaxChunks]
    /\ \E kind \in InitialContents, stale \in BOOLEAN,
          participants \in {{"w1"}, {"w1", "w2"}} :
        /\ fs_initial = (IF kind = "old" THEN "old" ELSE "none")
        /\ fs_dir = [f \in (IF kind # "none" THEN {KEY_FILE} ELSE {})
                            \cup (IF stale THEN {TmpName(KEY_FILE)} ELSE {}) |->
                        IF f = KEY_FILE THEN 1 ELSE 2]
        /\ fs_inodes = <<IF kind = "old" THEN Complete("old", doc_size["old"])
                         ELSE IF kind = "none" THEN << >> ELSE <<Chunk(kind, 1)>>,
                         SubSeq(Complete("stale", doc_size["stale"]), 1, doc_size["stale"] - 1)>>
        /\ writers = [w \in participants |-> WriterIdle]
    /\ reader = ReaderStart
    /\ commits = << >>

\* open(tmp, "w"): create the file, or truncate the one that is there.
WriterOpen(w) ==
    /\ writers[w].pc = "idle"
    /\ LET tmp == TmpName(KEY_FILE)
           ino == IF tmp \in DOMAIN fs_dir THEN fs_dir[tmp] ELSE FreshInode(fs_inodes)
       IN /\ fs_dir' = [f \in DOMAIN fs_dir \cup {tmp} |-> IF f = tmp THEN ino ELSE fs_dir[f]]
          /\ fs_inodes' = [i \in DOMAIN fs_inodes \cup {ino} |->
                              IF i = ino THEN << >> ELSE fs_inodes[i]]
          /\ writers' = [writers EXCEPT ![w] = [pc |-> "write", fd |-> ino, off |-> 0]]
    /\ UNCHANGED <<reader, fs_initial, commits, doc_size>>
    /\ UNCHANGED <<routerVars, toolVars, convVars>>

\* json.dump: one write() per chunk, at the descriptor's offset; the file is
\* closed after the last.
WriterWrite(w) ==
    /\ writers[w].pc = "write"
    /\ LET st == writers[w]
           k == st.off + 1
       IN /\ fs_inodes' = [fs_inodes EXCEPT ![st.fd] = WriteAt(@, st.off, Chunk(w, k))]
          /\ writers' = [writers EXCEPT ![w] =
                [st EXCEPT !.off = k, !.pc = IF k = doc_size[w] THEN "rename" ELSE "write"]]
    /\ UNCHANGED <<fs_dir, reader, fs_initial, commits, doc_size>>
    /\ UNCHANGED <<routerVars, toolVars, convVars>>

\* os.rename(tmp, path): FileNotFoundError when tmp is gone.
WriterRename(w) ==
    /\ writers[w].pc = "rename"
    /\ LET tmp == TmpName(KEY_FILE) IN
       IF tmp \in DOMAIN fs_dir
       THEN /\ fs_dir' = [f \in (DOMAIN fs_dir \ {tmp}) \cup {KEY_FILE} |->
                              IF f = KEY_FILE THEN fs_dir[tmp] ELSE fs_dir[f]]
            /\ writers' = [writers EXCEPT ![w].pc = "done"]
            /\ commits' = Append(commits, w)
       ELSE /\ writers' = [writers EXCEPT ![w].pc = "raised"]
            /\ UNCHANGED <<fs_dir, commits>>
    /\ UNCHANGED <<fs_inodes, reader, fs_initial, doc_size>>
    /\ UNCHANGED <<routerVars, toolVars, convVars>>

\* path.exists(): None when the file is missing.
ReaderExists ==
    /\ reader.pc = "exists"
    /\ reader' = IF KEY_FILE \in DOMAIN fs_dir
                 THEN [reader EXCEPT !.pc = "open"]
                 ELSE [reader EXCEPT !.pc = "done", !.result = "none"]
    /\ UNCHANGED <<fs_dir, fs_inodes, writers, fs_initial, commits, doc_size>>
    /\ UNCHANGED <<routerVars, toolVars, convVars>>

\* open(path): IOError (answered with None) when the file is gone.
ReaderOpen ==
    /\ reader.pc = "open"
    /\ reader' = IF KEY_FILE \in DOMAIN fs_dir
                 THEN [reader EXCEPT !.pc = "read", !.fd = fs_dir[KEY_FILE]]
                 ELSE [reader EXCEPT !.pc = "done", !.result = "none"]
    /\ UNCHANGED <<fs_dir, fs_inodes, writers, fs_initial, commits, doc_size>>
    /\ UNCHANGED <<routerVars, toolVars, convVars>>

\* json.load(f): read() calls up to the end of the file, then the parse;
\* JSONDecodeError is answered with None, UnicodeDecodeError is not caught.
ReaderRead ==
    /\ reader.pc = "read"
    /\ LET content == fs_inodes[reader.fd]
           pos == Len(reader.buf)
       IN reader' = IF pos < Len(content)
                    THEN [reader EXCEPT !.buf = Append(@, content[pos + 1])]
                    ELSE IF ~Decodable(reader.buf)
                    THEN [reader EXCEPT !.pc = "raised"]
                    ELSE [reader EXCEPT !.pc = "done",
                                        !.result = ParseContent(reader.buf, doc_size)]
    /\ UNCHANGED <<fs_dir, fs_inodes, writers, fs_initial, commits, doc_size>>
    /\ UNCHANGED <<routerVars, toolVars, convVars>>

FilesNext ==
    \/ \E w \in DOMAIN writers : WriterOpen(w)
    \/ \E w \in DOMAIN writers : WriterWrite(w)
    \/ \E w \in DOMAIN writers : WriterRename(w)
    \/ ReaderExists
    \/ ReaderOpen
    \/ ReaderRead

\* ------------------------------------------------------------------------
\* A session of tool calls through the dispatcher
\* ------------------------------------------------------------------------

NoCall == [name |-> "", arguments |-> PyNone, ret |-> PyNone, before |-> EmptyStore,
           raised |-> FALSE]

\* The calls a session makes: every registered tool, with arguments of the
\* declared types, of other types, missing, or no mapping at all, and names
\* that are not registered.
Invocation(name, arguments) == [name |-> name, arguments |-> arguments]
ToolInvocations ==
    {Invocation("list_habits", PyDict(EmptyMap)),
     Invocation("check_habit", PyDict([habit_name |-> PyStr("exercise")])),
     Invocation("check_habit", PyDict([habit_name |-> PyInt(5)])),
     Invocation("check_habit", PyDict(EmptyMap)),
     Invocation("uncheck_habit", PyDict([habit_name |-> PyStr("read")])),
     Invocation("add_habit", PyDict([name |-> PyStr("Walk")])),
     Invocation("remove_habit", PyDict([habit_name |-> PyStr("read")])),
     Invocation("remove_habit", PyList(<<PyStr("read")>>)),
     Invocation("get_progress", PyDict(EmptyMap)),
     Invocation("get_goals", PyDict(EmptyMap)),
     Invocation("get_affirmation", PyDict(EmptyMap)),
     Invocation("setup_goal", PyDict([north_star |-> PyStr("Ship it"),
                                      affirmation |-> PyStr("I can")])),
     Invocation("setup_goal", PyDict([north_star |-> PyStr("Ship it"),
                                      affirmation |-> PyInt(5)])),
     Invocation("setup_supporting_goal", PyDict([goal_number |-> PyInt(1),
                                                 title |-> PyStr("Health")])),
     Invocation("complete_action", PyDict([goal_number |-> PyInt(1),
                                           action_number |-> PyInt(1)])),
     Invocation("complete_action", PyDict([goal_number |-> PyStr("1"),
                                           action_number |-> PyInt(1)])),
     Invocation("write_journal", PyDict([notes |-> PyStr("ok")])),
     Invocation("read_journal", PyDict(EmptyMap)),
     Invocation("read_journal", PyNone),
     Invocation("nonexistent_tool", PyDict(EmptyMap)),
     Invocation("", PyNone)}

\* uuid.uuid4().hex[:8]: a fresh identifier for each call.
UuidOf(n) == "0000000" \o ToString(n)

\* The values uuid.uuid4().hex[:8] can yield in a call: 32 random bits, so a
\* value no stored habit id holds, or the value of one of the stored ids.
CUSTOM_PREFIX == "habit-custom-"
IsCustomId(id) ==
    Len(id) > Len(CUSTOM_PREFIX) /\ SubSeq(id, 1, Len(CUSTOM_PREFIX)) = CUSTOM_PREFIX
StoredUuids(st) ==
    LET habits == ReadHabits(st) IN
    {SubSeq(habits[i].id, Len(CUSTOM_PREFIX) + 1, Len(habits[i].id)) :
        i \in {k \in 1..Len(habits) : IsCustomId(habits[k].id)}}
UuidDraws(st, env) == {UuidOf(env.tick)} \cup StoredUuids(st)

\* The environments a call can run in: add_habit is the one tool that draws.
CallEnvs(inv, st, env) ==
    {[env EXCEPT !.uuid = u] :
        u \in IF inv.name = "add_habit" THEN UuidDraws(st, env) ELSE {env.uuid}}

StartDay == 10

ToolsInit ==
    /\ t_store \in ExchangeStores
    /\ t_env = [day |-> StartDay, tick |-> 1, uuid |-> UuidOf(1)]
    /\ t_last = NoCall

\* The call as the session records it: the store it left, the call and its
\* outcome in t_last, and the clock moved on.
Recorded(inv, out) ==
    /\ t_store' = out.store
    /\ t_last' = [name |-> inv.name, arguments |-> inv.arguments, ret |-> out.ret,
                  before |-> t_store, raised |-> out.raised]
    /\ t_env' = [t_env EXCEPT !.tick = @ + 1, !.uuid = UuidOf(t_env.tick + 1)]

\* result = execute_tool(name, arguments)
Dispatch ==
    /\ t_env.tick <= MaxCalls
    /\ \E inv \in ToolInvocations : \E env \in CallEnvs(inv, t_store, t_env) :
        Recorded(inv, ExecuteTool(inv.name, inv.arguments, t_store, env))
    /\ UNCHANGED <<routerVars, fileVars, convVars>>

\* Midnight: the calendar day changes.
DayPasses ==
    /\ t_env.day < StartDay + MaxDays
    /\ t_env' = [t_env EXCEPT !.day = @ + 1]
    /\ UNCHANGED <<t_store, t_last>>
    /\ UNCHANGED <<routerVars, fileVars, convVars>>

ToolsNext == Dispatch \/ DayPasses

ToolsParked ==
    /\ t_store = EmptyStore /\ t_env = [day |-> 0, tick |-> 0, uuid |-> ""]
    /\ t_last = NoCall

\* The values the file variables keep in the specifications that do not use
\* them, and likewise for the exchange.
FilesParked ==
    /\ fs_dir = << >> /\ fs_inodes = << >> /\ writers = << >>
    /\ reader = ReaderStart /\ fs_initial = "none" /\ commits = << >>
    /\ doc_size = << >>
RouterParked ==
    /\ pc = "parked" /\ max_tool_rounds = 0 /\ round_num = 0
    /\ working_messages = << >> /\ choice = NoChoice /\ message = NoMessage
    /\ finish_reason = Absent /\ tool_calls = Absent /\ tc_idx = 0
    /\ result = PyNone /\ exc = "" /\ store = EmptyStore /\ calls = 0
    /\ sent = << >> /\ executed = << >> /\ failure = NoFailure
    /\ caller_messages = << >>

vars == <<routerVars, fileVars, toolVars, convVars>>

\* One exchange of chat_with_tools.
Init == RouterInit /\ FilesParked /\ ToolsParked /\ ConvParked
Next == RouterNext
Spec == Init /\ [][Next]_vars

\* Processes writing and reading one key of the store.
FileInit == FilesInit /\ RouterParked /\ ToolsParked /\ ConvParked
FileNext == FilesNext
FileSpec == FileInit /\ [][FileNext]_vars

\* A session of tool calls over the days.
ToolInit == ToolsInit /\ RouterParked /\ FilesParked /\ ConvParked
ToolNext == ToolsNext
ToolSpec == ToolInit /\ [][ToolNext]_vars

\* ------------------------------------------------------------------------
\* A planning session: setup_goal, setup_supporting_goal, complete_action
\* ------------------------------------------------------------------------

\* One call through the dispatcher, recorded in t_last.
Invoke(inv) ==
    /\ \E env \in CallEnvs(inv, t_store, t_env) :
        Recorded(inv, ExecuteTool(inv.name, inv.arguments, t_store, env))
    /\ UNCHANGED <<routerVars, fileVars, convVars>>

TextList(texts) == PyList([i \in 1..Len(texts) |-> PyStr(texts[i])])

\* The arguments the session passes: goal and action numbers at and beyond
\* both ends of 1..8; no action texts, some (one of them empty), and more
\* than eight.
GoalNumbers == {0, 1, 8, 9}
ActionLists ==
    {PyNone,
     TextList(<<"Run">>),
     TextList(<<"", "Lift">>),
     TextList(<<"a1", "a2", "a3", "a4", "a5", "a6", "a7", "a8", "a9">>)}
ActionNumbers == {<<1, 1>>, <<1, 2>>, <<8, 1>>, <<8, 8>>, <<0, 1>>, <<9, 1>>, <<1, 0>>, <<1, 9>>}

SetupGoalCalls ==
    {Invocation("setup_goal", PyDict([north_star |-> PyStr("Ship it")])),
     Invocation("setup_goal", PyDict([north_star |-> PyStr("Ship more"),
                                      purpose |-> PyStr("Why"),
                                      affirmation |-> PyStr("I can")]))}
SetupSupportingGoalCalls ==
    {Invocation("setup_supporting_goal",
                PyDict([goal_number |-> PyInt(g), title |-> PyStr("Health"), actions |-> acts])) :
        g \in GoalNumbers, acts \in ActionLists}
CompleteActionCalls ==
    {Invocation("complete_action",
                PyDict([goal_number |-> PyInt(p[1]), action_number |-> PyInt(p[2])])) :
        p \in ActionNumbers}

\* The stores a session starts from: nothing, a goal form, a goal form and
\* a chart with goal 1 set up.
PlanningStart == [day |-> StartDay, tick |-> 0, uuid |-> UuidOf(0)]
StoreWithForm ==
    ExecuteTool("setup_goal", PyDict([north_star |-> PyStr("Ship it")]),
                EmptyStore, PlanningStart).store
StoreWithChart ==
    ExecuteTool("setup_supporting_goal",
                PyDict([goal_number |-> PyInt(1), title |-> PyStr("Fitness"),
                        actions |-> TextList(<<"Walk", "Swim">>)]),
                StoreWithForm, PlanningStart).store
GoalStores == {EmptyStore, StoreWithForm, StoreWithChart}

GoalsInit ==
    /\ t_store \in GoalStores
    /\ t_env = [day |-> StartDay, tick |-> 1, uuid |-> UuidOf(1)]
    /\ t_last = NoCall

SetupGoal ==
    /\ t_env.tick <= MaxGoalCalls
    /\ \E inv \in SetupGoalCalls : Invoke(inv)

SetupSupportingGoal ==
    /\ t_env.tick <= MaxGoalCalls
    /\ \E inv \in SetupSupportingGoalCalls : Invoke(inv)

CompleteAction ==
    /\ t_env.tick <= MaxGoalCalls
    /\ \E inv \in CompleteActionCalls : Invoke(inv)

GoalInit == GoalsInit /\ RouterParked /\ FilesParked /\ ConvParked
GoalNext == SetupGoal \/ SetupSupportingGoal \/ CompleteAction
GoalSpec == GoalInit /\ [][GoalNext]_vars

\* ------------------------------------------------------------------------
\* A journalling session: write_journal and setup_goal over the days
\* ------------------------------------------------------------------------

\* The fields the calls pass: none, two disjoint sets, an explicitly empty
\* list and an explicitly empty note.
WriteJournalCalls ==
    {Invocation("write_journal", PyDict(EmptyMap)),
     Invocation("write_journal", PyDict([went_well |-> TextList(<<"Shipped">>),
                                         mood |-> PyInt(4)])),
     Invocation("write_journal", PyDict([learnings |-> TextList(<<"Rest">>),
                                         energy |-> PyInt(2),
                                         notes |-> PyStr("Long day")])),
     Invocation("write_journal", PyDict([went_well |-> TextList(<< >>),
                                         notes |-> PyStr(""),
                                         mood |-> PyInt(0)])),
     Invocation("write_journal", PyDict([didnt_go_well |-> TextList(<<"Slept late">>),
                                         tomorrow_focus |-> TextList(<<"Plan">>),
                                         mood |-> PyNone]))}

DiaryInit ==
    /\ t_store \in {EmptyStore, StoreWithForm}
    /\ t_env = [day |-> StartDay, tick |-> 1, uuid |-> UuidOf(1)]
    /\ t_last = NoCall
    /\ RouterParked /\ FilesParked /\ ConvParked

WriteJournal ==
    /\ t_env.tick <= MaxJournalCalls
    /\ \E inv \in WriteJournalCalls : Invoke(inv)

DiaryNext == WriteJournal \/ SetupGoal \/ DayPasses
DiarySpec == DiaryInit /\ [][DiaryNext]_vars

\* ------------------------------------------------------------------------
\* A habit session: add_habit, remove_habit, check_habit, uncheck_habit
\* ------------------------------------------------------------------------

AddHabitCalls ==
    {Invocation("add_habit", PyDict([name |-> PyStr(n)])) : n \in {"Walk", "Evening walk"}}
RemoveHabitCalls ==
    {Invocation("remove_habit", PyDict([habit_name |-> PyStr(q)])) : q \in {"walk", "read", "zzz"}}
CheckHabitCalls ==
    {Invocation("check_habit", PyDict([habit_name |-> PyStr(q)])) :
        q \in {"walk", "read", "exercise", ""}}
UncheckHabitCalls ==
    {Invocation("uncheck_habit", PyDict([habit_name |-> PyStr(q)])) :
        q \in {"walk", "read", "exercise", " "}}

HabitInit ==
    /\ t_store \in ExchangeStores
    /\ t_env = [day |-> StartDay, tick |-> 1, uuid |-> UuidOf(1)]
    /\ t_last = NoCall
    /\ RouterParked /\ FilesParked /\ ConvParked

AddHabit ==
    /\ t_env.tick <= MaxHabitCalls
    /\ \E inv \in AddHabitCalls : Invoke(inv)

RemoveHabit ==
    /\ t_env.tick <= MaxHabitCalls
    /\ \E inv \in RemoveHabitCalls : Invoke(inv)

CheckHabit ==
    /\ t_env.tick <= MaxHabitCalls
    /\ \E inv \in CheckHabitCalls : Invoke(inv)

UncheckHabit ==
    /\ t_env.tick <= MaxHabitCalls
    /\ \E inv \in UncheckHabitCalls : Invoke(inv)

HabitNext == AddHabit \/ RemoveHabit \/ CheckHabit \/ UncheckHabit \/ DayPasses
HabitSpec == HabitInit /\ [][HabitNext]_vars

\* ------------------------------------------------------------------------
\* A session that watches the streak: habit calls, get_progress, the overlay
\* ------------------------------------------------------------------------

\* get_overlay_state is called outside execute_tool: what it raises reaches
\* its caller.
Unguarded(r) == Outcome(r.ret, r.store, r.raised)

\* state = get_overlay_state(conversation_history)
Overlay ==
    /\ t_env.tick <= MaxCalls
    /\ Recorded(Invocation("get_overlay_state", PyDict([conversation_history |-> PyNone])),
                Unguarded(get_overlay_state(PyNone, t_store, t_env)))
    /\ UNCHANGED <<routerVars, fileVars, convVars>>

\* Two habits and a goal form; both habits done today and on the two days
\* before, one of them on the day before those, both on the day before that.
StreakLog ==
    [d \in {DateStr(StartDay - k) : k \in 0..4} |->
        [id \in {"h1", "h2"} |-> id = "h1" \/ d # DateStr(StartDay - 3)]]
StreakStore ==
    WriteJson(WriteJson(StoreWithForm, HABITS_FILE,
                        PyList(<<Habit("h1", "Exercise"), Habit("h2", "Read")>>)),
              HABIT_LOG_FILE, PyDict(StreakLog))

\* One habit, done on each of the last LoggedDays days.
LongStreakStore ==
    WriteJson(WriteJson(StoreWithForm, HABITS_FILE, PyList(<<Habit("h1", "Exercise")>>)),
              HABIT_LOG_FILE,
              PyDict([d \in {DateStr(StartDay - k) : k \in 0..(LoggedDays - 1)} |->
                        [id \in {"h1"} |-> TRUE]]))

StreakCalls ==
    {Invocation("check_habit", PyDict([habit_name |-> PyStr(q)])) : q \in {"exercise", "read", "walk"}}
    \cup {Invocation("uncheck_habit", PyDict([habit_name |-> PyStr("read")])),
          Invocation("add_habit", PyDict([name |-> PyStr("Walk")])),
          Invocation("get_progress", PyDict(EmptyMap))}
    \cup {Invocation("remove_habit", PyDict([habit_name |-> PyStr(q)])) : q \in {"read", "walk"}}

StreakInit ==
    /\ t_store \in {EmptyStore, StoreWithForm, StreakStore, LongStreakStore}
    /\ t_env = [day |-> StartDay, tick |-> 1, uuid |-> UuidOf(1)]
    /\ t_last = NoCall
    /\ RouterParked /\ FilesParked /\ ConvParked

HabitCall ==
    /\ t_env.tick <= MaxStreakCalls
    /\ \E inv \in StreakCalls : Invoke(inv)

StreakNext == HabitCall \/ Overlay \/ DayPasses
StreakSpec == StreakInit /\ [][StreakNext]_vars

\* ------------------------------------------------------------------------
\* The chart seen by the progress summary and by the overlay snapshot
\* ------------------------------------------------------------------------

\* Goals set up with and without a title, with action texts of which one
\* is empty; actions completed in two goals; the progress summary.
ChartCalls ==
    {Invocation("setup_supporting_goal",
                PyDict([goal_number |-> PyInt(g), title |-> PyStr(title), actions |-> acts])) :
        g \in {1, 2}, title \in {"Health", ""},
        acts \in {TextList(<<"Run">>), TextList(<<"", "Lift">>)}}
    \cup {Invocation("complete_action",
                     PyDict([goal_number |-> PyInt(p[1]), action_number |-> PyInt(p[2])])) :
            p \in {<<1, 1>>, <<1, 2>>, <<2, 1>>}}
    \cup {Invocation("get_progress", PyDict(EmptyMap))}

\* The habits and the log of StreakStore next to a chart with goal 1 set up.
StreakChartStore ==
    ExecuteTool("setup_supporting_goal",
                PyDict([goal_number |-> PyInt(1), title |-> PyStr("Fitness"),
                        actions |-> TextList(<<"Walk", "Swim">>)]),
                StreakStore, PlanningStart).store

ChartInit ==
    /\ t_store \in {StoreWithForm, StoreWithChart, StreakChartStore}
    /\ t_env = [day |-> StartDay, tick |-> 1, uuid |-> UuidOf(1)]
    /\ t_last = NoCall
    /\ RouterParked /\ FilesParked /\ ConvParked

ChartCall ==
    /\ t_env.tick <= MaxChartCalls
    /\ \E inv \in ChartCalls : Invoke(inv)

ChartNext == ChartCall \/ Overlay
ChartSpec == ChartInit /\ [][ChartNext]_vars

\* ------------------------------------------------------------------------
\* The journal seen by the overlay snapshot
\* ------------------------------------------------------------------------

\* write_journal as it ran `back` days before the session starts.
WrittenBack(st, back, fields) ==
    ExecuteTool("write_journal", PyDict(fields), st,
                [day |-> StartDay - back, tick |-> 0, uuid |-> UuidOf(0)]).store

\* Entries one day back, on the last day the averages reach and on the day
\* before it.
JournalStore ==
    WrittenBack(WrittenBack(WrittenBack(EmptyStore,
        AVERAGE_DAYS, [mood |-> PyInt(1), energy |-> PyInt(1)]),
        AVERAGE_DAYS - 1, [mood |-> PyInt(5)]),
        1, [mood |-> PyInt(4), energy |-> PyInt(0 - 3)])

MoodInit ==
    /\ t_store \in {EmptyStore, JournalStore}
    /\ t_env = [day |-> StartDay, tick |-> 1, uuid |-> UuidOf(1)]
    /\ t_last = NoCall
    /\ RouterParked /\ FilesParked /\ ConvParked

MoodNext == WriteJournal \/ Overlay \/ DayPasses
MoodSpec == MoodInit /\ [][MoodNext]_vars

\* ------------------------------------------------------------------------
\* Conversation: the dialogue state and the message history
\* ------------------------------------------------------------------------

\* MAX_HISTORY = 10  # Keep last N turn pairs
MAX_HISTORY == 10

\* The Conversation object as a record, and the record the variables hold.
Conversation(state, messages, transcript) ==
    [state |-> state, messages |-> messages, current_transcript |-> transcript]
Self == Conversation(conv_state, conv_messages, current_transcript)

\* {"role": role, "content": content}
Message(role, content) == [role |-> role, content |-> content]

\* toggle() without the test of the transcript.
toggleAlways(self) ==
    IF self.state = "idle"
    THEN [self EXCEPT !.state = "listening", !.current_transcript = ""]
    ELSE IF self.state = "listening" THEN [self EXCEPT !.state = "thinking"]
    ELSE self

\* toggle()
toggle(self) ==
    IF self.state = "idle"
    THEN [self EXCEPT !.state = "listening", !.current_transcript = ""]
    ELSE IF self.state = "listening"
    THEN (IF self.current_transcript # "" THEN [self EXCEPT !.state = "thinking"] ELSE self)
    ELSE self

\* stop() that keeps the transcript.
stopKeeps(self) == [self EXCEPT !.state = "idle"]

\* stop()
stop(self) == [self EXCEPT !.state = "idle", !.current_transcript = ""]

\* _trim_history() that never cuts.
trim_historyNever(self) == self

\* _trim_history()
trim_history(self) ==
    IF Len(self.messages) > MAX_HISTORY * 2
    THEN [self EXCEPT !.messages =
            SubSeq(@, Len(@) - MAX_HISTORY * 2 + 1, Len(@))]
    ELSE self

\* add_user_message(content) / add_assistant_message(content)
add_user_message(self, content) ==
    trim_history([self EXCEPT !.messages = Append(@, Message("user", content))])
add_assistant_message(self, content) ==
    trim_history([self EXCEPT !.messages = Append(@, Message("assistant", content))])

\* The object after an operation, and the record of the operation.
Becomes(self, name) ==
    /\ conv_state' = self.state
    /\ conv_messages' = self.messages
    /\ current_transcript' = self.current_transcript
    /\ conv_op' = [name |-> name, n |-> conv_op.n + 1, before |-> Self]

\* The content of the next message: its number among the appended ones.
NextContent == ToString(Len(conv_appended) + 1)

Toggle ==
    /\ conv_op.n < MaxConvOps
    /\ Becomes(toggle(Self), "toggle")
    /\ UNCHANGED <<conv_appended, routerVars, fileVars, toolVars>>

Stop ==
    /\ conv_op.n < MaxConvOps
    /\ Becomes(stop(Self), "stop")
    /\ UNCHANGED <<conv_appended, routerVars, fileVars, toolVars>>

AddUserMessage ==
    /\ conv_op.n < MaxConvOps
    /\ Becomes(add_user_message(Self, NextContent), "add_user_message")
    /\ conv_appended' = Append(conv_appended, Message("user", NextContent))
    /\ UNCHANGED <<routerVars, fileVars, toolVars>>

AddAssistantMessage ==
    /\ conv_op.n < MaxConvOps
    /\ Becomes(add_assistant_message(Self, NextContent), "add_assistant_message")
    /\ conv_appended' = Append(conv_appended, Message("assistant", NextContent))
    /\ UNCHANGED <<routerVars, fileVars, toolVars>>

\* The caller's own assignments: a transcript heard while listening, and
\* the state moved on from thinking to speaking and from speaking to idle.
CallerHears ==
    /\ conv_op.n < MaxConvOps
    /\ conv_state = "listening"
    /\ Becomes([Self EXCEPT !.current_transcript = "Hello"], "hears")
    /\ UNCHANGED <<conv_appended, routerVars, fileVars, toolVars>>

CallerAdvances ==
    /\ conv_op.n < MaxConvOps
    /\ conv_state \in {"thinking", "speaking"}
    /\ Becomes([Self EXCEPT !.state = IF @ = "thinking" THEN "speaking" ELSE "idle"], "advances")
    /\ UNCHANGED <<conv_appended, routerVars, fileVars, toolVars>>

\* The messages appended before the session starts: k messages in strict
\* alternation, the first from the user.
Alternated(k) ==
    [i \in 1..k |-> Message(IF i % 2 = 1 THEN "user" ELSE "assistant", ToString(i))]

\* The object after those k appends.
RECURSIVE Fed(_)
Fed(k) ==
    IF k = 0 THEN Conversation("idle", << >>, "")
    ELSE IF k % 2 = 1 THEN add_user_message(Fed(k - 1), ToString(k))
    ELSE add_assistant_message(Fed(k - 1), ToString(k))

ConvInit ==
    /\ \E k \in 0..(MAX_HISTORY * 2 + 1) :
        /\ conv_messages = Fed(k).messages
        /\ conv_appended = Alternated(k)
    /\ conv_state = "idle" /\ current_transcript = ""
    /\ conv_op = [name |-> "", n |-> 0, before |-> << >>]
    /\ RouterParked /\ FilesParked /\ ToolsParked

ConvNext ==
    \/ Toggle \/ Stop \/ AddUserMessage \/ AddAssistantMessage
    \/ CallerHears \/ CallerAdvances
ConvSpec == ConvInit /\ [][ConvNext]_vars

\* ------------------------------------------------------------------------
\* The overlay file and its conversation window (_write_overlay_state)
\* ------------------------------------------------------------------------

OVERLAY_STATE_FILE == "harada-overlay.json"

\* `if len(conv_history) > 40: conv_history = conv_history[-40:]`
WINDOW == 40

\* {"role": role, "text": text}
OverlayEntry(role, text) == PyDict([role |-> PyStr(role), text |-> PyStr(text)])

\* The history loaded as if no overlay file were stored.
LoadedHistoryNone(st) == << >>

\* The history loaded from the overlay file: [] when the file is missing
\* or does not parse, else existing.get("conversation", []).
LoadedHistory(st) ==
    IF OVERLAY_STATE_FILE \notin DOMAIN st THEN << >>
    ELSE IF st[OVERLAY_STATE_FILE].corrupt THEN << >>
    ELSE MapGet(st[OVERLAY_STATE_FILE].v.d, "conversation", PyList(<< >>)).l

\* conv_history[-40:] without the test of the length: nothing is cut.
KeepLastAll(conv_history) == conv_history

\* The history cut to its last 40 entries.
KeepLast(conv_history) ==
    IF Len(conv_history) > WINDOW
    THEN SubSeq(conv_history, Len(conv_history) - WINDOW + 1, Len(conv_history))
    ELSE conv_history

\* The history with the new exchange appended, cut.
ExtendedHistory(st, transcript, response) ==
    KeepLast(LoadedHistory(st)
             \o <<OverlayEntry("user", transcript), OverlayEntry("assistant", response)>>)

\* The file written once get_overlay_state has returned state r; nothing is
\* written when it raised.
OverlayWritten(r, st) ==
    IF r.raised THEN Outcome(PyNone, st, TRUE)
    ELSE Outcome(PyNone, WriteJson(st, OVERLAY_STATE_FILE, r.ret), FALSE)

\* _write_overlay_state(transcript, response, conversation)
write_overlay_state(transcript, response, st, env) ==
    OverlayWritten(
        get_overlay_state(PyList(ExtendedHistory(st, transcript, response)), st, env),
        st)

\* The k-th exchange of a session: what was said and what was answered.
TranscriptOf(k) == "u" \o ToString(k)
ResponseOf(k) == "a" \o ToString(k)

WriteOverlayState ==
    /\ t_env.tick <= MaxExchanges
    /\ Recorded(Invocation("_write_overlay_state",
                           PyDict([transcript |-> PyStr(TranscriptOf(t_env.tick)),
                                   response |-> PyStr(ResponseOf(t_env.tick))])),
                write_overlay_state(TranscriptOf(t_env.tick), ResponseOf(t_env.tick),
                                    t_store, t_env))
    /\ UNCHANGED <<routerVars, fileVars, convVars>>

\* A goal form whose deadline is a number, as setup_goal stores it when
\* given one.
NumberDeadlineStore ==
    ExecuteTool("setup_goal", PyDict([north_star |-> PyStr("Ship it"), deadline |-> PyInt(5)]),
                EmptyStore, PlanningStart).store

\* The overlay file a session finds: none, or one that does not parse.
WindowStores ==
    {EmptyStore, StoreWithForm, StreakStore, JournalStore, NumberDeadlineStore}
    \cup {[f \in DOMAIN st \cup {OVERLAY_STATE_FILE} |->
            IF f = OVERLAY_STATE_FILE THEN CorruptFile ELSE st[f]] :
          st \in {EmptyStore, StoreWithForm}}

WindowInit ==
    /\ t_store \in WindowStores
    /\ t_env = [day |-> StartDay, tick |-> 1, uuid |-> UuidOf(1)]
    /\ t_last = NoCall
    /\ RouterParked /\ FilesParked /\ ConvParked

WindowNext == WriteOverlayState
WindowSpec == WindowInit /\ [][WindowNext]_vars

\* ------------------------------------------------------------------------
\* An exchange of chat_with_tools seen from its caller
\* ------------------------------------------------------------------------

\* The histories a caller passes: none, one message, a turn pair and the
\* new message.
Histories ==
    {<< >>,
     History,
     <<[role |-> "user", content |-> PyStr("I exercised today")],
       [role |-> "assistant", content |-> PyStr("Well done")],
       [role |-> "user", content |-> PyStr("and I read")]>>}

CallerInit ==
    /\ pc = "call"
    /\ max_tool_rounds \in 1..MaxRounds
    /\ round_num = 0
    /\ caller_messages \in Histories
    /\ working_messages = InitialMessages(SYSTEM_PROMPT, caller_messages)
    /\ choice = NoChoice /\ message = NoMessage
    /\ finish_reason = Absent /\ tool_calls = Absent /\ tc_idx = 0
    /\ result = PyNone /\ exc = ""
    /\ store \in ExchangeStores
    /\ calls = 0 /\ sent = << >> /\ executed = << >> /\ failure = NoFailure
    /\ FilesParked /\ ToolsParked /\ ConvParked

CallerSpec == CallerInit /\ [][RouterNext]_vars

\* ------------------------------------------------------------------------
\* The goal form saved again (setup_goal on a stored form and chart)
\* ------------------------------------------------------------------------

\* A goal form with every optional field given, and a chart made from it.
FullFormStore ==
    ExecuteTool("setup_supporting_goal",
                PyDict([goal_number |-> PyInt(1), title |-> PyStr("Fitness"),
                        actions |-> TextList(<<"Walk">>)]),
                ExecuteTool("setup_goal",
                            PyDict([north_star |-> PyStr("Run a marathon"),
                                    purpose |-> PyStr("Health"),
                                    deadline |-> PyStr("2027-01-01"),
                                    current_state |-> PyStr("5k"),
                                    gap_analysis |-> PyStr("Endurance"),
                                    obstacles |-> TextList(<<"Time">>),
                                    support_needed |-> TextList(<<"Coach">>),
                                    affirmation |-> PyStr("I run")]),
                            EmptyStore, PlanningStart).store,
                PlanningStart).store

FormInit ==
    /\ t_store \in {EmptyStore, StoreWithChart, FullFormStore}
    /\ t_env = [day |-> StartDay, tick |-> 1, uuid |-> UuidOf(1)]
    /\ t_last = NoCall
    /\ RouterParked /\ FilesParked /\ ConvParked

FormNext == SetupGoal \/ SetupSupportingGoal
FormSpec == FormInit /\ [][FormNext]_vars

\* ------------------------------------------------------------------------
\* _fuzzy_match on its own: one call on a query and a candidate list
\* ------------------------------------------------------------------------

\* Queries in mixed case, padded, of one and several words, longer than the
\* names, unrelated and empty; names of one and several words, padded and
\* empty.
FuzzyQueries == {"walk", " Walk ", "evening walk", "walk dog", "walk the dog now", "zzz", "", " "}
CandidateNames == {"Walk", "Evening walk", "Walk the dog", " walk", "Run", ""}
Candidate(n) == [name |-> PyStr(n)]

RECURSIVE SeqsUpTo(_, _)
SeqsUpTo(S, n) ==
    IF n = 0 THEN {<< >>}
    ELSE LET shorter == SeqsUpTo(S, n - 1) IN
         shorter \cup {Append(l, x) : l \in {k \in shorter : Len(k) = n - 1}, x \in S}

CandidateLists == SeqsUpTo({Candidate(n) : n \in CandidateNames}, MaxCandidates)

FuzzyPending(query, candidates) ==
    [name |-> "_fuzzy_match",
     arguments |-> PyDict([query |-> PyStr(query), candidates |-> PyList(candidates)]),
     ret |-> PyNone, before |-> EmptyStore, raised |-> FALSE]

FuzzyInit ==
    /\ t_store = EmptyStore
    /\ t_env = [day |-> StartDay, tick |-> 0, uuid |-> UuidOf(0)]
    /\ \E query \in FuzzyQueries, candidates \in CandidateLists :
            t_last = FuzzyPending(query, candidates)
    /\ RouterParked /\ FilesParked /\ ConvParked

\* match, score = _fuzzy_match(query, candidates)
FuzzyReturned(fm) ==
    /\ t_last' = [t_last EXCEPT !.ret = fm, !.raised = fm.raised]
    /\ t_env' = [t_env EXCEPT !.tick = 1]

FuzzyCall ==
    /\ t_env.tick = 0
    /\ FuzzyReturned(FuzzyMatch(t_last.arguments.d.query, t_last.arguments.d.candidates.l))
    /\ UNCHANGED t_store
    /\ UNCHANGED <<routerVars, fileVars, convVars>>

FuzzyNext == FuzzyCall
FuzzySpec == FuzzyInit /\ [][FuzzyNext]_vars

\* ------------------------------------------------------------------------
\* Properties of the protocol loop
\* ------------------------------------------------------------------------

Terminated == pc \in {"returned", "raised"}

\* The executor calls of round r, in the order made.
RoundExecutions(r) == SelectSeq(executed, LAMBDA e : e.round = r)

\* The last response asked for tools and was not final.
LastWasToolRound == choice # NoChoice /\ ~IsFinal(tool_calls, finish_reason)

\* The longest tool-call list a response carries.
MaxListLen == CHOOSE n \in 0..10 :
    /\ \A l \in ToolCallLists : Len(l) <= n
    /\ \E l \in ToolCallLists : Len(l) = n

\* The steps the call has left at most: a variant that every step decreases.
RemainingWork ==
    IF Terminated THEN 0
    ELSE (max_tool_rounds - round_num) * (MaxListLen + 1)
         - (IF pc = "tools" THEN tc_idx ELSE 0)

\* The call is at a point where one of its steps is enabled: a provider
\* request (which is answered or fails), or the next tool call of the round.
CanStep ==
    \/ pc = "call" /\ round_num < max_tool_rounds
    \/ pc = "tools" /\ tc_idx \in 1..Len(tool_calls.l)

\* C1: chat_with_tools makes at most MAX_TOOL_ROUNDS provider requests and
\* then ends, whatever the provider answers: every step uses up remaining
\* work, a call that has not ended can always step, and it ends by returning
\* unless a provider request failed.
C1_TerminatesWithinBudget ==
    /\ [](Terminated \/ CanStep)
    /\ [](RemainingWork >= 0)
    /\ [][/\ calls' <= max_tool_rounds
          /\ RemainingWork' < RemainingWork
          /\ pc' = "raised" => failure'.happened]_vars

\* C1 witness: the provider asked for tools in every round of the largest
\* budget and the call returned after exactly that many requests.
C1_Witness ==
    /\ pc = "returned"
    /\ max_tool_rounds = MaxBudget
    /\ calls = max_tool_rounds
    /\ LastWasToolRound

\* C2: a response with finish reason "stop" ends the exchange even when it
\* carries tool calls: its content is returned, no tool runs, the store and
\* the working messages stay as they were, and no step follows the return.
C2_StopIsFinal ==
    [][/\ pc # "returned"
       /\ (calls' = calls + 1 /\ ~failure'.happened
           /\ choice'.finish_reason = PyStr("stop"))
          => /\ pc' = "returned"
             /\ result' = GetOr(choice'.message.content, PyStr(""))
             /\ executed' = executed
             /\ store' = store
             /\ working_messages' = working_messages]_vars

\* C2 witness: after a tool round, a response with finish reason "stop" and
\* tool calls was returned as text.
C2_Witness ==
    /\ pc = "returned"
    /\ choice.finish_reason = PyStr("stop")
    /\ Truthy(GetOr(message.tool_calls, PyNone))
    /\ IsStr(result)
    /\ Len(executed) > 0

\* The rounds ran out: the call returned on a response that asked for tools.
Exhausted == pc = "returned" /\ LastWasToolRound

\* C3 (as claimed): when the rounds run out the call returns the last
\* content if it is text and the fallback apology otherwise, never None.
C3_ExhaustionYieldsText ==
    Exhausted =>
        /\ IsStr(result)
        /\ result = (IF IsStr(GetOr(message.content, PyNone))
                     THEN message.content ELSE PyStr(FALLBACK))

\* C4: when the next request is about to be sent after a tool round, its
\* message list is the previous request's list, then the provider's tool-call
\* message, then one tool message per requested call, in order, with that
\* call's id and the string the executor returned for it.
C4_NextRequestExtendsPrevious ==
    (pc = "call" /\ calls > 0) =>
        LET done == RoundExecutions(round_num - 1) IN
        /\ Len(done) = Len(tool_calls.l)
        /\ working_messages =
              sent \o <<message>>
                   \o [i \in 1..Len(tool_calls.l) |->
                         [role |-> "tool", tool_call_id |-> tool_calls.l[i].id,
                          content |-> done[i].result]]
        /\ \A i \in 1..Len(done) : IsStr(done[i].result) /\ done[i].id = tool_calls.l[i].id

\* C4 witness: a round with two tool calls is over and the next request is due.
C4_Witness == pc = "call" /\ calls > 0 /\ Len(tool_calls.l) = 2

\* The argument text of a tool call does not parse.
Unparseable(raw) == IsStr(raw) /\ ~JsonLoads(raw.s).ok

\* C5: a tool call with unparseable argument text is executed with an empty
\* dict; the round goes on: every tool call of the round is executed in
\* order and its result appended, and the only raise is a provider failure.
C5_BadArgumentsDegrade ==
    /\ \A i \in 1..Len(executed) :
          Unparseable(executed[i].raw) => executed[i].arguments = PyDict(EmptyMap)
    /\ pc = "tools" => Len(RoundExecutions(round_num)) = tc_idx - 1
    /\ (pc = "call" /\ calls > 0) =>
          /\ Len(RoundExecutions(round_num - 1)) = Len(tool_calls.l)
          /\ Len(working_messages) = Len(sent) + 1 + Len(tool_calls.l)
    /\ pc = "raised" => failure.happened

\* C5 witness: a round whose first tool call had unparseable arguments ran
\* both its tool calls and the next request is due.
C5_Witness ==
    /\ pc = "call" /\ calls > 0
    /\ Len(tool_calls.l) = 2
    /\ Unparseable(tool_calls.l[1].function.arguments)
    /\ Len(RoundExecutions(round_num - 1)) = 2

\* C6: once a provider request fails the call has raised that failure, and
\* no provider request and no tool execution follows it.
C6_ProviderFailurePropagates ==
    failure.happened =>
        /\ pc = "raised"
        /\ exc = failure.kind
        /\ calls = failure.calls
        /\ Len(executed) = failure.executed

\* C6 witness: the request of a later round failed, after tools had run.
C6_Witness == failure.happened /\ pc = "raised" /\ calls > 1 /\ Len(executed) > 0

\* The response that checks both habits in one round.
CheckBoth == CHOOSE l \in ToolCallLists :
    /\ Len(l) = 2
    /\ \A i \in 1..2 : l[i].function.name = "check_habit"
    /\ ~Unparseable(l[1].function.arguments)
    /\ ~IsList(ParseArguments(l[1].function.arguments))

\* C8: right after a round whose two tool calls check the two habits, both
\* habits are logged true for today, list_habits reports 2/2 done, and the
\* two calls ran in the order listed.
C8_BothHabitsChecked ==
    (LastWasToolRound /\ tool_calls = PyList(CheckBoth) /\ tc_idx = 2
     /\ Len(RoundExecutions(round_num - (IF pc = "call" THEN 1 ELSE 0))) = 2
     /\ HABITS_FILE \in DOMAIN store) =>
        LET today_log == MapGet(ReadHabitLog(store), Today(ExchangeEnv), EmptyMap)
            done == RoundExecutions(round_num - (IF pc = "call" THEN 1 ELSE 0))
        IN /\ MapGet(today_log, "h1", FALSE)
           /\ MapGet(today_log, "h2", FALSE)
           /\ done[1].id = "c1" /\ done[2].id = "c2"
           /\ ExecuteTool("list_habits", PyDict(EmptyMap), store, ExchangeEnv).ret
                = PyStr("Today's habits (2/2 done):\n- Exercise: done\n- Read: done")

\* C8 witness: the round that checks both habits is over.
C8_Witness ==
    /\ pc = "call" /\ calls > 0
    /\ tool_calls = PyList(CheckBoth)
    /\ HABITS_FILE \in DOMAIN store
    /\ Len(RoundExecutions(round_num - 1)) = 2

\* ------------------------------------------------------------------------
\* Properties of the store's files
\* ------------------------------------------------------------------------

SingleWriter == DOMAIN writers = {"w1"}
TwoWriters == DOMAIN writers = WriterIds
StoredContent == IF KEY_FILE \in DOMAIN fs_dir THEN fs_inodes[fs_dir[KEY_FILE]] ELSE << >>

\* C9: with a single writer and a concurrent reader of the same key, a read
\* answers the document stored before the write (None when there was none)
\* or the document written, never a partial one; once the write has
\* completed the key holds the written document and no temporary file is left.
C9_ReaderSeesWholeDocument ==
    SingleWriter =>
        /\ reader.pc = "done" => reader.result \in {fs_initial, "w1"}
        /\ writers["w1"].pc # "raised"
        /\ writers["w1"].pc = "done" =>
            /\ TmpName(KEY_FILE) \notin DOMAIN fs_dir
            /\ StoredContent = Complete("w1", doc_size["w1"])

\* A read that ran to its end while the write was under way.
C9_Witness ==
    /\ SingleWriter
    /\ fs_initial = "old"
    /\ writers["w1"].pc = "write" /\ writers["w1"].off >= 1
    /\ reader.pc = "done" /\ reader.result = "old"

\* C10: with two concurrent writers of the same key, both writes complete
\* and the key ends up holding the complete document of the writer that
\* committed last.
C10_LastWriterWins ==
    (TwoWriters /\ \A w \in WriterIds : writers[w].pc \in {"done", "raised"}) =>
        /\ \A w \in WriterIds : writers[w].pc = "done"
        /\ Len(commits) = 2
        /\ ParseContent(StoredContent, doc_size) = commits[2]

\* The content the reader was given is no complete document.
ReadCorrupt == reader.fd # 0 /\ ~IsComplete(reader.buf)

\* C11 (as claimed): _read_json never raises, and returns None when the key
\* is missing and when the stored content is corrupt or unparseable.
C11_ReadNeverRaises ==
    /\ reader.pc # "raised"
    /\ (reader.pc = "done" /\ reader.fd = 0) => reader.result = "none"
    /\ (reader.pc = "done" /\ ReadCorrupt) => reader.result = "none"

\* ------------------------------------------------------------------------
\* Properties of the dispatcher
\* ------------------------------------------------------------------------

\* C7: execute_tool never raises to its caller: whatever the name and the
\* arguments it returns a string; an unregistered name returns exactly
\* "Unknown tool: {name}" and leaves the store alone; a handler that raises
\* is answered with "Tool error ({name}): {message}".
C7_DispatcherReturnsString ==
    t_last # NoCall =>
        /\ IsStr(t_last.ret)
        /\ t_last.name \notin DOMAIN TOOL_FUNCTIONS =>
            /\ t_last.ret = PyStr("Unknown tool: " \o t_last.name)
            /\ t_store = t_last.before
        /\ t_last.raised =>
            LET prefix == "Tool error (" \o t_last.name \o "): " IN
            /\ Len(t_last.ret.s) >= Len(prefix)
            /\ SubSeq(t_last.ret.s, 1, Len(prefix)) = prefix

\* ------------------------------------------------------------------------
\* Properties of the goal form and the OW64 chart
\* ------------------------------------------------------------------------

\* The chart and the goal form a store holds (None when none is stored).
ChartOf(st) == ReadJson(st, OW64_FILE)
FormOf(st) == ReadJson(st, GOAL_FORM_FILE)
HasChart(st) == Truthy(ChartOf(st))
GoalsOf(st) == ChartOf(st).d.supportingGoals

\* The last call, by name, and its numeric arguments.
LastIs(name) == t_last # NoCall /\ t_last.name = name
LastGoal == t_last.arguments.d.goal_number.n
LastAction == t_last.arguments.d.action_number.n
InOneToEight(k) == k \in 1..8

\* C12: whatever setup_goal, setup_supporting_goal and complete_action calls
\* were made, a stored chart has exactly 8 supporting goals with ids 1..8 in
\* order, each with exactly 8 action slots with ids "{goalId}-{index}".
C12_ChartIsEightByEight ==
    HasChart(t_store) =>
        /\ Len(GoalsOf(t_store)) = 8
        /\ \A i \in 1..8 :
            LET goal == GoalsOf(t_store)[i] IN
            /\ goal.id = i
            /\ Len(goal.actions) = 8
            /\ \A j \in 1..8 :
                /\ goal.actions[j].id = ToString(i) \o "-" \o ToString(j)
                /\ goal.actions[j].goalId = i

\* A chart that took more than eight action texts for its last goal and has
\* a completed action.
C12_Witness ==
    /\ LastIs("setup_supporting_goal")
    /\ LastGoal = 8
    /\ t_last.arguments.d.actions # PyNone
    /\ Len(t_last.arguments.d.actions.l) = 9
    /\ HasChart(t_store)
    /\ GoalsOf(t_store)[8].actions[8].text = PyStr("a8")
    /\ \E j \in 1..8 : GoalsOf(t_store)[1].actions[j].completed

\* The last call was complete_action on a slot in range that had text.
CompletedWithText ==
    /\ LastIs("complete_action")
    /\ HasChart(t_last.before)
    /\ InOneToEight(LastGoal) /\ InOneToEight(LastAction)
    /\ Truthy(GoalsOf(t_last.before)[LastGoal].actions[LastAction].text)

\* C13: complete_action on a slot in 1..8 x 1..8 with non-empty text leaves
\* that slot completed, also when it was completed already, and changes no
\* other slot's text or completed flag (nor the slot's own text).
C13_CompleteActionIdempotent ==
    CompletedWithText =>
        /\ HasChart(t_store)
        /\ GoalsOf(t_store)[LastGoal].actions[LastAction].completed
        /\ \A i \in 1..8, j \in 1..8 :
            LET was == GoalsOf(t_last.before)[i].actions[j]
                is == GoalsOf(t_store)[i].actions[j]
            IN /\ is.text = was.text
               /\ (<<i, j>> # <<LastGoal, LastAction>>) => is.completed = was.completed
        /\ \A i \in 1..8 : GoalsOf(t_store)[i].title = GoalsOf(t_last.before)[i].title

\* A repeated completion, next to another completed action.
C13_Witness ==
    /\ CompletedWithText
    /\ GoalsOf(t_last.before)[LastGoal].actions[LastAction].completed
    /\ \E j \in 1..8 : j # LastAction /\ GoalsOf(t_store)[LastGoal].actions[j].completed

\* The message complete_action refuses with, "" when it has no reason to.
CompleteRefusal ==
    IF ~HasChart(t_last.before) THEN "No OW64 chart set up."
    ELSE IF ~InOneToEight(LastGoal) THEN "Goal number must be 1-8."
    ELSE IF ~InOneToEight(LastAction) THEN "Action number must be 1-8."
    ELSE IF ~Truthy(GoalsOf(t_last.before)[LastGoal].actions[LastAction].text)
    THEN "Action " \o ToString(LastGoal) \o "-" \o ToString(LastAction) \o " has no text defined."
    ELSE ""

C15_SetupSupportingGoalRefuses ==
    LastIs("setup_supporting_goal") =>
        /\ ~Truthy(FormOf(t_last.before)) =>
            /\ t_last.ret = PyStr("Set up your north star goal first.")
            /\ t_store = t_last.before
        /\ (Truthy(FormOf(t_last.before)) /\ ~InOneToEight(LastGoal)) =>
            /\ t_last.ret = PyStr("Goal number must be 1-8.")
            /\ t_store = t_last.before

\* A refusal of goal number 0 with a goal form and no chart yet.
C15_Witness ==
    /\ LastIs("setup_supporting_goal")
    /\ Truthy(FormOf(t_last.before))
    /\ ~HasChart(t_last.before)
    /\ LastGoal = 0
    /\ ~HasChart(t_store)

\* The last call was a setup_supporting_goal that went through.
SetupSucceeded ==
    /\ LastIs("setup_supporting_goal")
    /\ Truthy(FormOf(t_last.before))
    /\ InOneToEight(LastGoal)

\* The texts the last call supplied.
LastTexts == IF t_last.arguments.d.actions = PyNone THEN << >> ELSE t_last.arguments.d.actions.l

\* The chart the call started from: the stored one, else the empty chart.
ChartBefore ==
    IF HasChart(t_last.before) THEN ChartOf(t_last.before)
    ELSE NewChart(FormOf(t_last.before).d.northStar)

\* C16: a successful setup_supporting_goal(g, title, actions) with N texts
\* sets goal g's title and the texts of its first N slots (at most 8) and
\* changes nothing else: not the other texts of goal g, no completed flag,
\* no other goal.
C16_SetupSupportingGoalFrame ==
    SetupSucceeded =>
        /\ HasChart(t_store)
        /\ ChartOf(t_store).d.northStar = ChartBefore.d.northStar
        /\ \A i \in 1..8 :
            i # LastGoal => GoalsOf(t_store)[i] = ChartBefore.d.supportingGoals[i]
        /\ GoalsOf(t_store)[LastGoal].title = t_last.arguments.d.title
        /\ \A j \in 1..8 :
            LET was == ChartBefore.d.supportingGoals[LastGoal].actions[j]
                is == GoalsOf(t_store)[LastGoal].actions[j]
            IN /\ is.completed = was.completed
               /\ is.completedAt = was.completedAt
               /\ is.text = (IF j <= Len(LastTexts) THEN LastTexts[j] ELSE was.text)

\* One text given to a goal that had two, one of them completed.
C16_Witness ==
    /\ SetupSucceeded
    /\ LastGoal = 1
    /\ Len(LastTexts) = 1
    /\ GoalsOf(t_store)[1].actions[1].text = PyStr("Run")
    /\ GoalsOf(t_store)[1].actions[2].text = PyStr("Swim")
    /\ GoalsOf(t_store)[1].actions[1].completed

\* A stored document that carries a createdAt stamp: the goal form, a
\* journal entry.
Stamped(st, f) ==
    /\ f \in DOMAIN st
    /\ ~st[f].corrupt
    /\ IsDict(st[f].v)
    /\ "createdAt" \in DOMAIN st[f].v.d

\* The step is a call of the tool, made at the time of t_env.
IsCallOf(name) == t_env'.tick # t_env.tick /\ t_last'.name = name

\* C17: createdAt never changes once set: no step changes the createdAt of a
\* stored goal form or journal entry; setup_goal and write_journal set
\* updatedAt to the time of the call, and createdAt too when they create the
\* document.
C17_CreatedAtSetOnce ==
    [][/\ \A f \in DOMAIN t_store :
            Stamped(t_store, f) =>
                /\ Stamped(t_store', f)
                /\ t_store'[f].v.d.createdAt = t_store[f].v.d.createdAt
       /\ \A call \in {[name |-> "setup_goal", file |-> GOAL_FORM_FILE],
                       [name |-> "write_journal", file |-> JournalFile(Today(t_env))]} :
            IsCallOf(call.name) =>
                /\ Stamped(t_store', call.file)
                /\ t_store'[call.file].v.d.updatedAt = PyStr(IsoNow(t_env))
                /\ ~Stamped(t_store, call.file) =>
                        t_store'[call.file].v.d.createdAt = PyStr(IsoNow(t_env))]_vars

\* A goal form and a journal entry of today, both saved again after they
\* were created.
C17_Witness ==
    /\ Stamped(t_store, GOAL_FORM_FILE)
    /\ FormOf(t_store).d.createdAt # FormOf(t_store).d.updatedAt
    /\ Stamped(t_store, JournalFile(Today(t_env)))
    /\ LET entry == ReadJson(t_store, JournalFile(Today(t_env))).d
       IN entry.createdAt # entry.updatedAt

\* The fields of a journal entry: the parameter, the stored key, the default.
JournalFields ==
    {<<"went_well", "wentWell", PyList(<< >>)>>,
     <<"didnt_go_well", "didntGoWell", PyList(<< >>)>>,
     <<"learnings", "learnings", PyList(<< >>)>>,
     <<"tomorrow_focus", "tomorrowFocus", PyList(<< >>)>>,
     <<"mood", "mood", PyInt(3)>>,
     <<"energy", "energy", PyInt(3)>>,
     <<"notes", "notes", PyStr("")>>}

\* A value was passed for the parameter (None stands for none passed).
Passed(arguments, param) ==
    param \in DOMAIN arguments.d /\ arguments.d[param] # PyNone

\* C18: write_journal merges per field: the entry stored for today holds,
\* for each field, the value passed when one was passed (an empty list
\* included), else the value of today's previous entry when there is one,
\* else the default.
C18_JournalMergesPerField ==
    [][IsCallOf("write_journal") =>
        LET f == JournalFile(Today(t_env))
            arguments == t_last'.arguments
            entry == ReadJson(t_store', f)
        IN /\ Truthy(entry)
           /\ \A fld \in JournalFields :
                entry.d[fld[2]] =
                    IF Passed(arguments, fld[1]) THEN arguments.d[fld[1]]
                    ELSE IF Stamped(t_store, f) THEN t_store[f].v.d[fld[2]]
                    ELSE fld[3]]_vars

\* Two calls with disjoint fields on the second day, both kept in the entry.
C18_Witness ==
    /\ t_env.day = StartDay + 1
    /\ Stamped(t_store, JournalFile(Today(t_env)))
    /\ LET entry == ReadJson(t_store, JournalFile(Today(t_env))).d
       IN /\ entry.wentWell = TextList(<<"Shipped">>)
          /\ entry.mood = PyInt(4)
          /\ entry.learnings = TextList(<<"Rest">>)
          /\ entry.energy = PyInt(2)
          /\ entry.notes = PyStr("Long day")
          /\ entry.didntGoWell = PyList(<< >>)

\* ------------------------------------------------------------------------
\* Properties of the habit list
\* ------------------------------------------------------------------------

\* The ids of a habit list are pairwise distinct.
DistinctIds(habits) ==
    \A i \in 1..Len(habits), j \in 1..Len(habits) : i # j => habits[i].id # habits[j].id

\* C19 (as claimed): each add_habit adds exactly one record, and the ids of
\* the habit list are pairwise distinct afterwards.
C19_AddHabitUniqueIds ==
    [][IsCallOf("add_habit") =>
        /\ Len(ReadHabits(t_store')) = Len(ReadHabits(t_store)) + 1
        /\ SubSeq(ReadHabits(t_store'), 1, Len(ReadHabits(t_store))) = ReadHabits(t_store)
        /\ DistinctIds(ReadHabits(t_store'))]_vars

\* The records a step changed, by position.
ChangedRecords(before, after) == {i \in 1..Len(before) : after[i] # before[i]}

\* C20 (as claimed): habit records are never deleted and keep their id and
\* name; remove_habit sets active to false on the one record that is the
\* best fuzzy match among the active habits and changes no other record.
C20_HabitsNeverDeleted ==
    [][LET before == ReadHabits(t_store)
           after == ReadHabits(t_store')
       IN /\ Len(after) >= Len(before)
          /\ \A i \in 1..Len(before) :
                after[i].id = before[i].id /\ after[i].name = before[i].name
          /\ IsCallOf("remove_habit") =>
                LET active == ActiveHabits(before)
                    fm == FuzzyMatch(t_last'.arguments.d.habit_name, active)
                IN /\ Len(after) = Len(before)
                   /\ NoMatch(fm) => after = before
                   /\ ~NoMatch(fm) =>
                        /\ Cardinality(ChangedRecords(before, after)) = 1
                        /\ \A i \in ChangedRecords(before, after) :
                            /\ before[i] = active[fm.idx]
                            /\ after[i] = [before[i] EXCEPT !.active = FALSE]]_vars

\* ------------------------------------------------------------------------
\* Properties of check_habit and uncheck_habit
\* ------------------------------------------------------------------------

\* Whether the habit with the id counts as done on the day.
Done(st, day, id) == MapGet(MapGet(ReadHabitLog(st), day, EmptyMap), id, FALSE)

\* The days and the ids the habit log mentions.
LogDays(st) == DOMAIN ReadHabitLog(st)
LogIds(st) == UNION {DOMAIN ReadHabitLog(st)[d] : d \in LogDays(st)}

\* The ids of the habits that are active.
ActiveIds(st) ==
    {ReadHabits(st)[i].id : i \in {k \in 1..Len(ReadHabits(st)) : ReadHabits(st)[k].active}}

\* The (day, id) pairs whose done state a step changed.
DoneChanged ==
    {p \in (LogDays(t_store) \cup LogDays(t_store')) \X (LogIds(t_store) \cup LogIds(t_store')) :
        Done(t_store', p[1], p[2]) # Done(t_store, p[1], p[2])}

\* The call of the step found no habit: its reply says so.
Refused(ret) ==
    \/ ret = PyStr("No habits set up yet.")
    \/ (IsStr(ret) /\ Len(ret.s) >= 15 /\ SubSeq(ret.s, 1, 15) = "I couldn't find")

\* C21: check_habit and uncheck_habit never change the habit list and change
\* the done state of at most one habit, an active one, for today only; a
\* check_habit that finds a habit leaves it done for today, an uncheck_habit
\* that finds one leaves it not done, so the habit is done exactly when the
\* last call that found it was check_habit; no other step changes any done
\* state; and check_habit on a habit already done leaves the store as it was.
C21_CheckUncheckLastWins ==
    [][LET isCheck == IsCallOf("check_habit")
           isUncheck == IsCallOf("uncheck_habit")
           active == ActiveHabits(ReadHabits(t_store))
           fm == FuzzyMatch(t_last'.arguments.d.habit_name, active)
       IN /\ ~(isCheck \/ isUncheck) => DoneChanged = {}
          /\ (isCheck \/ isUncheck) =>
                /\ ReadHabits(t_store') = ReadHabits(t_store)
                /\ Cardinality(DoneChanged) <= 1
                /\ \A p \in DoneChanged : p[1] = Today(t_env) /\ p[2] \in ActiveIds(t_store)
                /\ Refused(t_last'.ret) => t_store' = t_store
                /\ ~Refused(t_last'.ret) =>
                      /\ ~NoMatch(fm)
                      /\ Done(t_store', Today(t_env), active[fm.idx].id) = isCheck
                      /\ \A p \in DoneChanged : p[2] = active[fm.idx].id
                      /\ (isCheck /\ Done(t_store, Today(t_env), active[fm.idx].id))
                            => t_store' = t_store]_vars

\* A habit was checked and then unchecked today while another habit of the
\* list is inactive.
C21_Witness ==
    /\ LastIs("uncheck_habit")
    /\ ~Refused(t_last.ret)
    /\ \E id \in ActiveIds(t_store) :
        /\ Done(t_last.before, Today(t_env), id)
        /\ ~Done(t_store, Today(t_env), id)
    /\ \E i \in 1..Len(ReadHabits(t_store)) : ~ReadHabits(t_store)[i].active

Range(f) == {f[i] : i \in DOMAIN f}

\* n/d, and 40 when that is less.
Floor40(n, d) == IF n < 40 * d THEN Score(40, 1) ELSE Score(n, d)

\* The score the rules give one candidate name for a query, both in lower
\* case and the query trimmed: 100 for equality, else the first rule that
\* applies, else 0.
RuleScore(q, n) ==
    IF q = n THEN Score(100, 1)
    ELSE IF StrContains(q, n) THEN Floor40(Len(q) * 90, Len(n))
    ELSE IF \A w \in Range(StrSplit(q)) : \E v \in Range(StrSplit(n)) : StrContains(w, v)
    THEN Score(60, 1)
    ELSE IF StrContains(n, q) THEN Floor40(Len(n) * 80, Len(q))
    ELSE Score(0, 1)

\* No active habit of the store reaches the minimum score for the query (an
\* empty query reaches it for none).
NoneReaches(st, query) ==
    LET q == StrStrip(StrLower(query))
        active == SelectSeq(ReadHabits(st), LAMBDA h : h.active)
    IN q = "" \/ \A i \in 1..Len(active) :
            ScoreLT(RuleScore(q, StrLower(active[i].name.s)), Score(MIN_SCORE, 1))

\* C22: a check_habit, uncheck_habit or remove_habit whose query no active
\* habit matches with a score of at least 30 (an empty query and an empty
\* active list included) answers that it could not find the habit, or that
\* there are no habits, and leaves the store as it was.
C22_NoMatchChangesNothing ==
    [][(/\ (IsCallOf("check_habit") \/ IsCallOf("uncheck_habit") \/ IsCallOf("remove_habit"))
        /\ NoneReaches(t_store, t_last'.arguments.d.habit_name.s))
       => /\ Refused(t_last'.ret)
          /\ ~t_last'.raised
          /\ t_store' = t_store]_vars

\* An empty query was refused while there are active habits, one of them
\* done today.
C22_Witness ==
    /\ t_last.name \in {"check_habit", "uncheck_habit", "remove_habit"}
    /\ StrStrip(t_last.arguments.d.habit_name.s) = ""
    /\ Refused(t_last.ret)
    /\ \E id \in ActiveIds(t_store) : Done(t_store, Today(t_env), id)

\* ------------------------------------------------------------------------
\* Properties of _fuzzy_match
\* ------------------------------------------------------------------------

\* The call of _fuzzy_match has returned.
Matched == t_last.name = "_fuzzy_match" /\ t_env.tick = 1
MatchQuery == StrStrip(StrLower(t_last.arguments.d.query.s))
MatchCandidates == t_last.arguments.d.candidates.l
MatchName(i) == MatchCandidates[i].name.s

\* The candidates whose name equals the query, case and surrounding
\* whitespace ignored.
EqualCandidates ==
    {i \in 1..Len(MatchCandidates) : StrStrip(StrLower(MatchName(i))) = MatchQuery}

\* C23 (as claimed): when some candidate's name equals the query, case and
\* surrounding whitespace ignored, _fuzzy_match returns such a candidate
\* with score 100 (the query not being empty, which matches nothing).
C23_ExactMatchScores100 ==
    (Matched /\ MatchQuery # "" /\ EqualCandidates # {})
        => /\ t_last.ret.idx \in EqualCandidates
           /\ t_last.ret.score = Score(100, 1)

\* The score the rules give candidate i for the query of the call.
MatchScore(i) == RuleScore(MatchQuery, StrLower(MatchName(i)))
SameScore(a, b) == a.n * b.d = b.n * a.d

\* C24: when no candidate equals the query (which is not empty),
\* _fuzzy_match returns a candidate whose score under the rules (query in
\* name, every query word in some name word, name in query, in that order)
\* is the highest of the list, with that score; and no candidate and score
\* 0 when no rule applies to any candidate.
C24_BestCandidateByRules ==
    (Matched /\ MatchQuery # "" /\ EqualCandidates = {})
        => IF \A i \in 1..Len(MatchCandidates) : MatchScore(i) = Score(0, 1)
           THEN t_last.ret.idx = 0 /\ t_last.ret.score = Score(0, 1)
           ELSE /\ t_last.ret.idx \in 1..Len(MatchCandidates)
                /\ SameScore(t_last.ret.score, MatchScore(t_last.ret.idx))
                /\ \A i \in 1..Len(MatchCandidates) :
                        ~ScoreGT(MatchScore(i), t_last.ret.score)

\* The second candidate won by the word rule over a first candidate that
\* scored by another rule.
C24_Witness ==
    /\ Matched /\ MatchQuery # "" /\ EqualCandidates = {}
    /\ Len(MatchCandidates) >= 2
    /\ t_last.ret.idx = 2
    /\ t_last.ret.score = Score(60, 1)
    /\ ScoreGT(MatchScore(1), Score(0, 1))

\* ------------------------------------------------------------------------
\* Properties of the read tools
\* ------------------------------------------------------------------------

READ_TOOLS == {"read_journal", "get_goals", "get_affirmation", "get_progress", "list_habits"}

\* The last call was one of a read tool with a dict of arguments.
LastIsRead == t_last.name \in READ_TOOLS /\ IsDict(t_last.arguments)

\* What each read tool answers when the document it reads is not stored.
AbsentAnswer(name, env) ==
    CASE name = "list_habits" ->
            "You don't have any habits set up yet. Would you like to create some?"
      [] name = "get_progress" ->
            "No Harada goal set up yet. Let's start by defining your north star goal!"
      [] name = "get_goals" -> "No goal form set up yet. Let's define your north star!"
      [] name = "get_affirmation" -> "No affirmation set. Would you like to create one?"
      [] name = "read_journal" -> "No journal entry for " \o DateStr(env.day) \o "."

\* The document each read tool reads first.
DocumentOf(name, env) ==
    CASE name = "list_habits" -> HABITS_FILE
      [] name \in {"get_progress", "get_goals", "get_affirmation"} -> GOAL_FORM_FILE
      [] name = "read_journal" -> "journal/" \o DateStr(env.day) \o ".json"

\* C25: a read tool leaves every stored document as it was, and when the
\* document it reads is not stored it returns its "no ... yet" message and
\* does not raise.
C25_ReadToolsArePure ==
    [][(t_env'.tick # t_env.tick /\ LastIsRead') =>
        /\ t_store' = t_store
        /\ DocumentOf(t_last'.name, t_env) \notin DOMAIN t_store =>
            /\ ~t_last'.raised
            /\ t_last'.ret = PyStr(AbsentAnswer(t_last'.name, t_env))]_vars

\* The affirmation was asked for with habits stored and no goal form.
C25_Witness ==
    /\ LastIsRead
    /\ t_last.name = "get_affirmation"
    /\ GOAL_FORM_FILE \notin DOMAIN t_store
    /\ HABITS_FILE \in DOMAIN t_store
    /\ HABIT_LOG_FILE \in DOMAIN t_store

\* ------------------------------------------------------------------------
\* Properties of the streak
\* ------------------------------------------------------------------------

\* Every active habit of the store is logged true on the day i days back.
Qualifies(st, env, i) == \A id \in ActiveIds(st) : Done(st, DateStr(env.day - i), id)

\* The number of consecutive qualifying days back from today, at most 365;
\* 0 with no active habit.
CountedStreak(st, env) ==
    IF ActiveIds(st) = {} THEN 0
    ELSE Cardinality({k \in 1..365 : \A i \in 0..(k - 1) : Qualifies(st, env, i)})

\* The step is a call of get_overlay_state that returned a snapshot.
IsSnapshot == IsCallOf("get_overlay_state") /\ ~t_last'.raised
SnapshotOf(last) == last.ret.d.dashboard.d

\* The line of the progress summary that names the streak.
StreakLine(k) == "Current streak: " \o ToString(k) \o " days."

\* C26: the streak of the overlay snapshot is the number of consecutive
\* days, back from today and at most 365, on which every active habit is
\* logged true (0 with no log or no active habit); the progress summary
\* names the same number, and names none when it is 0.
C26_StreakCountsQualifyingDays ==
    [][/\ IsSnapshot =>
            SnapshotOf(t_last').streak = PyInt(CountedStreak(t_store, t_env))
       /\ (IsCallOf("get_progress") /\ GOAL_FORM_FILE \in DOMAIN t_store) =>
            IF CountedStreak(t_store, t_env) > 0
            THEN StrContains(StreakLine(CountedStreak(t_store, t_env)), t_last'.ret.s)
            ELSE ~StrContains("Current streak", t_last'.ret.s)]_vars

\* The snapshot counted three days and stopped at a day on which one habit
\* was not done, with a day before it on which both were.
C26_Witness ==
    /\ LastIs("get_overlay_state")
    /\ SnapshotOf(t_last).streak = PyInt(3)
    /\ ~Qualifies(t_store, t_env, 3)
    /\ Qualifies(t_store, t_env, 4)

\* Some active habit of the store is not done today.
SomeNotDone(st, env) == \E id \in ActiveIds(st) : ~Done(st, Today(env), id)

StoredGoals(st) == IF HasChart(st) THEN GoalsOf(st) ELSE << >>
FilledSlots(g) == {j \in DOMAIN g.actions : g.actions[j].text # PyStr("")}
DoneSlots(g) == {j \in FilledSlots(g) : g.actions[j].completed}
FilledOf(gs) == {p \in (DOMAIN gs) \X (1..8) : p[2] \in FilledSlots(gs[p[1]])}
DoneOf(gs) == {p \in (DOMAIN gs) \X (1..8) : p[2] \in DoneSlots(gs[p[1]])}
Percent(done, total) == IF total = 0 THEN 0 ELSE RoundPct(done, total)

\* The counts of snapshot d are those of the chart gs.
SlotsCounted(d, gs) ==
    /\ d.ow64Total = PyInt(Cardinality(FilledOf(gs)))
    /\ d.ow64Done = PyInt(Cardinality(DoneOf(gs)))
    /\ d.ow64Completion = PyInt(Percent(Cardinality(DoneOf(gs)), Cardinality(FilledOf(gs))))
    /\ \A k \in DOMAIN d.goalProgress.l :
        d.goalProgress.l[k].d.pct =
            PyInt(Percent(Cardinality(DoneSlots(gs[d.goalProgress.l[k].d.id.n])),
                          Cardinality(FilledSlots(gs[d.goalProgress.l[k].d.id.n]))))

\* C28: in every overlay snapshot ow64Total is the number of slots with a
\* text, ow64Done the number of those that are completed, ow64Completion
\* the rounded percentage of the two (0 when no slot has a text), and each
\* goal's pct the same over the goal's own slots.
C28_OverlayCountsSlots ==
    [][IsSnapshot => SlotsCounted(SnapshotOf(t_last'), StoredGoals(t_store))]_vars

\* The line of the progress summary that names the chart's counts.
ChartLine(done, total) ==
    "OW64 progress: " \o ToString(done) \o "/" \o ToString(total) \o " actions completed"

\* The summary prog names the counts and the streak of snapshot d; it names
\* the counts only when the total is positive and the streak only when it is.
SameFigures(prog, d) ==
    /\ StrContains("OW64 progress: ", prog) <=> d.ow64Total.n > 0
    /\ d.ow64Total.n > 0 => StrContains(ChartLine(d.ow64Done.n, d.ow64Total.n), prog)
    /\ StrContains("Current streak: ", prog) <=> d.streak.n > 0
    /\ d.streak.n > 0 => StrContains(StreakLine(d.streak.n), prog)

\* C29: on every store that holds a goal form, the progress summary and the
\* overlay snapshot report the same chart counts and the same streak.
C29_SummaryAndOverlayAgree ==
    Truthy(FormOf(t_store)) =>
        SameFigures(get_progress(PyDict(EmptyMap), t_store, t_env).ret.s,
                    SnapshotOf(get_overlay_state(PyNone, t_store, t_env)))

\* The day offsets within the last 30 days whose journal entry is stored
\* with a value for key that is not null, and the mean of those values to
\* one decimal (a float), None when there is none.
ValuedDays(st, env, key) ==
    {i \in 0..29 :
        /\ JournalFile(DaysAgo(env, i)) \in DOMAIN st
        /\ key \in DOMAIN st[JournalFile(DaysAgo(env, i))].v.d
        /\ st[JournalFile(DaysAgo(env, i))].v.d[key] # PyNone}
ValueOn(st, env, key, i) == st[JournalFile(DaysAgo(env, i))].v.d[key].n
MeanOver(st, env, key, days) ==
    IF days = {} THEN PyNone
    ELSE PyFloat(RoundTenths(SumSeq([k \in 1..30 |->
                                IF (k - 1) \in days THEN ValueOn(st, env, key, k - 1) ELSE 0]),
                             Cardinality(days)), 10)

\* C30: avgMood and avgEnergy of every overlay snapshot are the means of the
\* non-null mood and energy values of the entries of the last 30 days,
\* whatever integers they are, and None exactly when there is no such value.
C30_AveragesOverThirtyDays ==
    [][IsSnapshot =>
        /\ SnapshotOf(t_last').avgMood =
            MeanOver(t_store, t_env, "mood", ValuedDays(t_store, t_env, "mood"))
        /\ SnapshotOf(t_last').avgEnergy =
            MeanOver(t_store, t_env, "energy", ValuedDays(t_store, t_env, "energy"))]_vars

\* ------------------------------------------------------------------------
\* Properties of the Conversation
\* ------------------------------------------------------------------------

\* A step that ran the operation, and the last m elements of a sequence.
IsOp(name) == conv_op'.n # conv_op.n /\ conv_op'.name = name
LastOf(seq, m) ==
    IF Len(seq) <= m THEN seq ELSE [i \in 1..m |-> seq[Len(seq) - m + i]]

\* C33: the history is the last min(n, 20) of the n messages appended, in
\* the order they were appended.
C33_HistoryIsLastTwenty ==
    /\ Len(conv_messages) = (IF Len(conv_appended) < 20 THEN Len(conv_appended) ELSE 20)
    /\ conv_messages = LastOf(conv_appended, 20)

\* More than twenty messages appended, the last ones out of alternation:
\* the history holds twenty and starts after the discarded ones.
C33_Witness ==
    /\ Len(conv_appended) = 23
    /\ conv_op.name = "add_assistant_message"
    /\ conv_appended[22].role = "assistant"
    /\ Len(conv_messages) = 20
    /\ conv_messages[1] = Message("assistant", "4")
    /\ conv_messages[20] = Message("assistant", "23")

\* C34: stop() leaves the state idle and the pending transcript empty, and
\* the message history as it was.
C34_StopResetsAndKeepsHistory ==
    [][IsOp("stop") =>
        /\ conv_state' = "idle"
        /\ current_transcript' = ""
        /\ conv_messages' = conv_messages]_vars

\* stop() ran while speaking with a transcript pending and a history stored.
C34_Witness ==
    /\ conv_op.name = "stop"
    /\ conv_op.before.state = "speaking"
    /\ conv_op.before.current_transcript # ""
    /\ conv_messages # << >>
    /\ conv_state = "idle" /\ current_transcript = ""

\* The edges of the cycle idle -> listening -> thinking -> speaking -> idle.
CycleEdges ==
    {<<"idle", "listening">>, <<"listening", "thinking">>,
     <<"thinking", "speaking">>, <<"speaking", "idle">>}
ConversationOps == {"toggle", "stop", "add_user_message", "add_assistant_message"}

\* C35: a state change made by an operation of the Conversation is an edge
\* of the cycle or a stop() reset to idle; toggle() moves idle to listening
\* and clears the transcript, moves listening to thinking only with a
\* transcript pending, and changes no state otherwise.
C35_StateChangesFollowCycle ==
    [][/\ (conv_op'.n # conv_op.n /\ conv_op'.name \in ConversationOps
           /\ conv_state' # conv_state) =>
            \/ <<conv_state, conv_state'>> \in CycleEdges
            \/ (conv_op'.name = "stop" /\ conv_state' = "idle")
       /\ IsOp("toggle") =>
            IF conv_state = "idle"
            THEN conv_state' = "listening" /\ current_transcript' = ""
            ELSE IF conv_state = "listening" /\ current_transcript # ""
            THEN conv_state' = "thinking"
            ELSE conv_state' = conv_state]_vars

\* toggle() ran while listening with no transcript and stayed listening.
C35_Witness ==
    /\ conv_op.name = "toggle"
    /\ conv_op.before.state = "listening"
    /\ conv_op.before.current_transcript = ""
    /\ conv_state = "listening"

\* The messages alternate, the first from the user.
Alternates(messages) ==
    \A i \in DOMAIN messages :
        messages[i].role = (IF i % 2 = 1 THEN "user" ELSE "assistant")

\* C40: with the messages appended in strict alternation from a user
\* message on, the history right after a user append begins with a user
\* message and holds whole pairs and the new user message.
C40_HistoryBeginsWithUser ==
    [][(IsOp("add_user_message") /\ Alternates(conv_appended')) =>
        /\ conv_messages'[1].role = "user"
        /\ Len(conv_messages') % 2 = 1]_vars

\* ------------------------------------------------------------------------
\* Properties of the overlay's conversation window
\* ------------------------------------------------------------------------

\* The window a store holds: that of a stored overlay file that parses,
\* else none.
StoredWindow(st) ==
    IF OVERLAY_STATE_FILE \in DOMAIN st /\ ~st[OVERLAY_STATE_FILE].corrupt
    THEN st[OVERLAY_STATE_FILE].v.d.conversation.l ELSE << >>

\* The j-th entry of a session's exchanges: user entries at the odd places,
\* the replies at the even ones.
ExchangeEntry(j) ==
    IF j % 2 = 1 THEN OverlayEntry("user", TranscriptOf((j + 1) \div 2))
    ELSE OverlayEntry("assistant", ResponseOf(j \div 2))

\* The last call wrote the overlay file.
Wrote == LastIs("_write_overlay_state") /\ ~t_last.raised

Dropped(window, k) ==
    \A i \in DOMAIN window :
        window[i].d.text \notin {PyStr(TranscriptOf(k)), PyStr(ResponseOf(k))}

\* C32: after 25 exchanges written from no overlay the window has exactly
\* 40 entries, the oldest 5 exchanges (10 entries) are gone from it, the
\* exchanges 6 to 25 are in it in order, and its newest entry is the 25th
\* reply.
C32_TwentyFiveExchanges ==
    (Wrote /\ t_env.tick = 26) =>
        /\ Len(StoredWindow(t_store)) = 40
        /\ \A k \in 1..5 : Dropped(StoredWindow(t_store), k)
        /\ \A i \in 1..40 : StoredWindow(t_store)[i] = ExchangeEntry(10 + i)
        /\ StoredWindow(t_store)[40] = OverlayEntry("assistant", "a25")

\* C32 as stated: after the 25 exchanges the window has 40 entries, the
\* oldest 10 exchanges are gone from it and its newest entry is the 25th
\* reply.
C32_TenExchangesDropped ==
    (Wrote /\ t_env.tick = 26) =>
        /\ Len(StoredWindow(t_store)) = 40
        /\ \A k \in 1..10 : Dropped(StoredWindow(t_store), k)
        /\ StoredWindow(t_store)[40] = OverlayEntry("assistant", "a25")

\* The 25th exchange was written.
C32_Witness ==
    /\ Wrote /\ t_env.tick = 26
    /\ t_last.arguments.d.response = PyStr("a25")
    /\ Len(StoredWindow(t_last.before)) = 40
    /\ StoredWindow(t_store)[40].d.text = PyStr("a25")

\* The figures of snapshot d are sound: no more done than there are, and
\* every percentage between 0 and 100.
SoundFigures(d) ==
    /\ d.ow64Done.n <= d.ow64Total.n
    /\ d.ow64Completion.n \in 0..100
    /\ \A k \in DOMAIN d.goalProgress.l : d.goalProgress.l[k].d.pct.n \in 0..100

\* C36: in every state reached through setup_goal, setup_supporting_goal
\* and complete_action every completed action has a text, and the snapshot
\* of the state reports no more actions done than it counts and only
\* percentages from 0 to 100.
C36_CompletedActionsHaveText ==
    /\ \A g \in DOMAIN StoredGoals(t_store) : \A j \in DOMAIN StoredGoals(t_store)[g].actions :
        StoredGoals(t_store)[g].actions[j].completed =>
            StoredGoals(t_store)[g].actions[j].text # PyStr("")
    /\ SoundFigures(SnapshotOf(get_overlay_state(PyNone, t_store, t_env)))

\* ------------------------------------------------------------------------
\* Properties of the exchange seen from its caller
\* ------------------------------------------------------------------------

C38_MissingFinishMeansStop ==
    [][(pc = "call" /\ calls' = calls + 1 /\ pc' # "raised"
        /\ choice'.finish_reason = Absent
        /\ Truthy(GetOr(choice'.message.tool_calls, PyNone))) =>
            /\ pc' = "returned"
            /\ IsStr(GetOr(choice'.message.content, PyNone)) =>
                    result' = choice'.message.content
            /\ executed' = executed
            /\ store' = store]_vars

\* A second-round response with tool calls, a text and no finish reason
\* was returned as the answer; only the first round's calls were executed.
C38_Witness ==
    /\ pc = "returned"
    /\ calls = 2
    /\ choice.finish_reason = Absent
    /\ Truthy(GetOr(choice.message.tool_calls, PyNone))
    /\ result = PyStr("Still processing...")
    /\ executed # << >>
    /\ \A i \in DOMAIN executed : executed[i].round = 0

\* ------------------------------------------------------------------------
\* Properties of the goal form saved again
\* ------------------------------------------------------------------------

\* The optional fields of the goal form: the parameter, the stored key, the
\* empty default.
FormFields ==
    {<<"purpose", "purpose", PyStr("")>>,
     <<"deadline", "deadline", PyStr("")>>,
     <<"current_state", "currentState", PyStr("")>>,
     <<"gap_analysis", "gapAnalysis", PyStr("")>>,
     <<"obstacles", "obstacles", PyList(<< >>)>>,
     <<"support_needed", "supportNeeded", PyList(<< >>)>>,
     <<"affirmation", "affirmation", PyStr("")>>}

\* C39: setup_goal stores a whole new form: northStar and every field
\* passed as given, every optional field not passed as its empty default
\* whatever the stored form held, createdAt carried over from the stored
\* form, updatedAt the time of the call; and every other document, the
\* chart with its own northStar included, is as it was.
C39_SetupGoalReplacesForm ==
    [][IsCallOf("setup_goal") =>
        /\ DOMAIN FormOf(t_store').d =
            {"northStar", "createdAt", "updatedAt"} \cup {f[2] : f \in FormFields}
        /\ FormOf(t_store').d.northStar = t_last'.arguments.d.north_star
        /\ \A f \in FormFields :
            FormOf(t_store').d[f[2]] =
                (IF f[1] \in DOMAIN t_last'.arguments.d
                 THEN t_last'.arguments.d[f[1]] ELSE f[3])
        /\ Truthy(FormOf(t_store)) =>
                FormOf(t_store').d.createdAt = FormOf(t_store).d.createdAt
        /\ FormOf(t_store').d.updatedAt = PyStr(IsoNow(t_env))
        /\ \A file \in (DOMAIN t_store \cup DOMAIN t_store') \ {GOAL_FORM_FILE} :
            file \in DOMAIN t_store /\ file \in DOMAIN t_store'
            /\ t_store'[file] = t_store[file]]_vars

\* setup_goal with a north star alone ran on the form that had every field
\* filled: the fields are empty again, createdAt is the old one, and the
\* chart still names the old north star.
C39_Witness ==
    /\ LastIs("setup_goal")
    /\ DOMAIN t_last.arguments.d = {"north_star"}
    /\ Truthy(ReadJson(t_last.before, GOAL_FORM_FILE))
    /\ Truthy(FormOf(t_store))
    /\ \A f \in FormFields : ReadJson(t_last.before, GOAL_FORM_FILE).d[f[2]] # f[3]
    /\ \A f \in FormFields : FormOf(t_store).d[f[2]] = f[3]
    /\ FormOf(t_store).d.createdAt = ReadJson(t_last.before, GOAL_FORM_FILE).d.createdAt
    /\ FormOf(t_store).d.createdAt # FormOf(t_store).d.updatedAt
    /\ HasChart(t_store)
    /\ ChartOf(t_store).d.northStar = PyStr("Run a marathon")
    /\ FormOf(t_store).d.northStar # ChartOf(t_store).d.northStar

====
